---- MODULE Spec2Model ----
(***************************************************************************)
(* Anki MCQ Importer - AI Batch Generator (src/__init__.py).               *)
(*                                                                         *)
(* Part 1: the card parsers and their dispatcher.  A response text is a    *)
(* sequence of one-character strings, so that splitting, trimming and the  *)
(* search for the cloze marker are computed on the characters.             *)
(***************************************************************************)
EXTENDS Integers, Sequences, FiniteSets, TLC

VARIABLES
    response,   \* the AI response text handed to parse_response
    fmt,        \* the format tag handed to parse_response
    cards,      \* the list parse_response returned
    ppc,        \* "input" before the call, "parsed" after it
    stored,     \* the configuration on disk (None when there is none)
    CONFIG,     \* the module's CONFIG dict (None before the module is imported)
    pc,         \* "unloaded" before the module is imported, "running" after
    dialog,     \* "open" while a GeminiSettings dialog exists, else "closed"
    _profiles,               \* GeminiSettings._profiles, the working copy
    _active_profile_key,     \* GeminiSettings._active_profile_key
    profile_combo,           \* the keys listed in profile_combo and the index shown
    nt_combo,                \* the index of the note type shown in nt_combo
    _field_mapping_widget,   \* the format and the combo texts of the mapping widget
    default_profiles,        \* the module-level dict DEFAULT_PROFILES as it is now
    CONFIG_dict,             \* the dict object that CONFIG["profiles"] refers to
    _profiles_dict,          \* the dict object that self._profiles refers to
    ops,        \* the number of dialog operations performed so far
    last,       \* the last operation performed and its outcome
    profile_fmt,         \* run_importer: the format of the active profile
    profile_field_map,   \* run_importer: the field_map of the active profile
    anki_field_names,    \* run_importer: the field names of the note type
    f_field,             \* run_importer: f_question, f_choices, ... by slot
    rpc,        \* "input" before the slots are resolved, "resolved" after
    valid_files,      \* run_importer: the files to process, sorted
    index,            \* run_importer: the loop index (0-based)
    ipc,              \* run_importer: where the run is: "idle", "config", "deck",
                      \* "files", "confirm", in the loop "top", "media", "api",
                      \* "notes", then "except", "done" (the loop is left), "results"
    ended,            \* why the run returned: a warning, a refusal, or "complete"
    root_deck,        \* run_importer: the sanitized root deck
    model_name,       \* run_importer: the model resolved
    confirmed,        \* the answer to "Proceed with import?"
    import_complete,  \* ImportProgressDialog.import_complete
    resets,           \* the number of calls of mw.reset()
    result_msg,       \* run_importer: the numbers of the summary
    counted,          \* the (file, counter) pairs of the counter increments
    in_events,        \* the loop has just run QApplication.processEvents()
    cancelled,        \* ImportProgressDialog.cancelled
    prev_file_path,   \* run_importer: None (<<>>) or the context file
    card_i,           \* run_importer: the cards of the file handled so far
    file_card_count,  \* run_importer: notes created from the file in progress
    cards_created,    \* run_importer: notes created in the run
    files_processed,  \* run_importer: files that gave at least one note
    files_failed,     \* run_importer: files counted as failed
    error_log,        \* run_importer: the (filename, message) pairs logged
    media_added,      \* the files registered with mw.col.media.add_file
    api_calls,        \* the calls made to the AI: current file, context, reply
    notes,            \* the notes added to the collection
    cancel_mark,      \* <<index, ipc, number of notes>> when the flag was set
    name,       \* the string handed to sanitize_deck_name
    result,     \* the string sanitize_deck_name returned
    spc,        \* "input" before the call, "sanitized" after it
    unsorted_files,   \* run_importer: the base names of valid_files before the sort
    sort_outcome,     \* the sorted list, or the exception valid_files.sort raised
    npc         \* "input" before the sort, "sorted" after it

parseVars == <<response, fmt, cards, ppc>>

storeVars == <<stored, CONFIG, pc, dialog, _profiles, _active_profile_key,
               profile_combo, nt_combo, _field_mapping_widget, default_profiles,
               CONFIG_dict, _profiles_dict, ops, last>>

resolveVars == <<profile_fmt, profile_field_map, anki_field_names, f_field, rpc>>

importVars == <<valid_files, index, ipc, in_events, cancelled, prev_file_path, card_i,
                file_card_count, cards_created, files_processed, files_failed,
                error_log, media_added, api_calls, notes, cancel_mark, ended,
                root_deck, model_name, confirmed, import_complete, resets, result_msg,
                counted>>

sanitizeVars == <<name, result, spc>>

sortVars == <<unsorted_files, sort_outcome, npc>>

vars == <<parseVars, storeVars, resolveVars, importVars, sanitizeVars, sortVars>>

(* the variables the settings dialog and the load leave alone *)
nonStoreVars == <<parseVars, resolveVars, importVars, sanitizeVars, sortVars>>

(* each part at rest, while another part runs *)
ParseIdle ==
    /\ response = <<>>
    /\ fmt = ""
    /\ cards = <<>>
    /\ ppc = "input"

ResolveIdle ==
    /\ profile_fmt = ""
    /\ profile_field_map = <<>>
    /\ anki_field_names = <<>>
    /\ f_field = <<>>
    /\ rpc = "input"

SortIdle ==
    /\ unsorted_files = <<>>
    /\ sort_outcome = [files |-> <<>>]
    /\ npc = "input"

SanitizeIdle ==
    /\ name = <<>>
    /\ result = <<>>
    /\ spc = "input"

ImportIdle ==
    /\ valid_files = <<>>
    /\ index = 0
    /\ ipc = "idle"
    /\ in_events = FALSE
    /\ cancelled = FALSE
    /\ prev_file_path = <<>>
    /\ card_i = 0
    /\ file_card_count = 0
    /\ cards_created = 0
    /\ files_processed = 0
    /\ files_failed = 0
    /\ error_log = <<>>
    /\ media_added = <<>>
    /\ api_calls = <<>>
    /\ notes = <<>>
    /\ cancel_mark = <<>>
    /\ ended = ""
    /\ root_deck = <<>>
    /\ model_name = ""
    /\ confirmed = FALSE
    /\ import_complete = FALSE
    /\ resets = 0
    /\ result_msg = <<>>
    /\ counted = <<>>

----------------------------------------------------------------------------
(* Bounds of the response texts                                            *)

MaxLines == 2
MaxCols == 6

----------------------------------------------------------------------------
(* Python string primitives used by the parsers                            *)

Whitespace == {" ", "\t", "\n", "\r"}

RECURSIVE lstrip(_)
lstrip(s) ==
    IF s # <<>> /\ Head(s) \in Whitespace THEN lstrip(Tail(s)) ELSE s

RECURSIVE rstrip(_)
rstrip(s) ==
    IF s # <<>> /\ s[Len(s)] \in Whitespace
    THEN rstrip(SubSeq(s, 1, Len(s) - 1))
    ELSE s

strip(s) == rstrip(lstrip(s))

RECURSIVE split(_, _)
split(s, sep) ==
    IF \E i \in 1..Len(s) : s[i] = sep
    THEN LET i == CHOOSE i \in 1..Len(s) :
                     s[i] = sep /\ \A j \in 1..(i - 1) : s[j] # sep
         IN  <<SubSeq(s, 1, i - 1)>> \o split(SubSeq(s, i + 1, Len(s)), sep)
    ELSE <<s>>

startswith(s, c) == s # <<>> /\ Head(s) = c

contains(s, sub) ==
    \E i \in 1..(Len(s) - Len(sub) + 1) : SubSeq(s, i, i + Len(sub) - 1) = sub

ClozeMarker == <<"{", "{", "c">>

----------------------------------------------------------------------------
(* _split_pipe_line: None is the empty list, both are falsy to the callers *)

split_pipe_line(line, expected_min) ==
    LET parts == split(line, "|")
    IN  IF Len(parts) < expected_min
        THEN <<>>
        ELSE [i \in 1..Len(parts) |-> strip(parts[i])]

Skipped(line) == line = <<>> \/ startswith(line, "#") \/ ~contains(line, <<"|">>)

(* the body of one iteration of parse_mcq_response: the records it appends *)
mcq_line_SwapsColumns(raw) ==
    LET line == strip(raw)
        parts == split_pipe_line(line, 5)
    IN  IF Skipped(line) \/ parts = <<>> THEN <<>>
        ELSE IF parts[2] = <<>> \/ parts[3] = <<>> THEN <<>>
        ELSE << [subtopic |-> parts[1], question |-> parts[2],
                 choices |-> parts[4], answer |-> parts[3],
                 extra |-> parts[5]] >>

mcq_line(raw) ==
    LET line == strip(raw)
        parts == split_pipe_line(line, 5)
    IN  IF Skipped(line) \/ parts = <<>> THEN <<>>
        ELSE IF parts[2] = <<>> \/ parts[3] = <<>> THEN <<>>
        ELSE << [subtopic |-> parts[1], question |-> parts[2],
                 choices |-> parts[3], answer |-> parts[4],
                 extra |-> parts[5]] >>

(* the body of one iteration of parse_cloze_response *)
cloze_line_NoMarkerCheck(raw) ==
    LET line == strip(raw)
        parts == split_pipe_line(line, 3)
    IN  IF Skipped(line) \/ parts = <<>> THEN <<>>
        ELSE IF parts[2] = <<>> THEN <<>>
        ELSE << [subtopic |-> parts[1], text |-> parts[2],
                 extra |-> IF Len(parts) > 2 THEN parts[3] ELSE <<>>] >>

cloze_line(raw) ==
    LET line == strip(raw)
        parts == split_pipe_line(line, 3)
    IN  IF Skipped(line) \/ parts = <<>> THEN <<>>
        ELSE IF parts[2] = <<>> \/ ~contains(parts[2], ClozeMarker) THEN <<>>
        ELSE << [subtopic |-> parts[1], text |-> parts[2],
                 extra |-> IF Len(parts) > 2 THEN parts[3] ELSE <<>>] >>

(* the body of one iteration of parse_basic_response *)
basic_line(raw) ==
    LET line == strip(raw)
        parts == split_pipe_line(line, 4)
    IN  IF Skipped(line) \/ parts = <<>> THEN <<>>
        ELSE IF parts[2] = <<>> \/ parts[3] = <<>> THEN <<>>
        ELSE << [subtopic |-> parts[1], question |-> parts[2],
                 answer |-> parts[3],
                 extra |-> IF Len(parts) > 3 THEN parts[4] ELSE <<>>] >>

NCols(raw) == Len(split(strip(raw), "|"))

RECURSIVE mcq_cards_StopsAtShortLine(_)
mcq_cards_StopsAtShortLine(lines) ==
    IF lines = <<>> THEN <<>>
    ELSE IF NCols(Head(lines)) < 5 THEN <<>>
    ELSE mcq_line(Head(lines)) \o mcq_cards_StopsAtShortLine(Tail(lines))

RECURSIVE mcq_cards(_)
mcq_cards(lines) ==
    IF lines = <<>> THEN <<>>
    ELSE mcq_line(Head(lines)) \o mcq_cards(Tail(lines))

RECURSIVE cloze_cards(_)
cloze_cards(lines) ==
    IF lines = <<>> THEN <<>>
    ELSE cloze_line(Head(lines)) \o cloze_cards(Tail(lines))

RECURSIVE basic_cards(_)
basic_cards(lines) ==
    IF lines = <<>> THEN <<>>
    ELSE basic_line(Head(lines)) \o basic_cards(Tail(lines))

parse_mcq_response(response_text) == mcq_cards(split(strip(response_text), "\n"))

parse_cloze_response(response_text) == cloze_cards(split(strip(response_text), "\n"))

parse_basic_response(response_text) == basic_cards(split(strip(response_text), "\n"))

parse_response_FallsBackToNothing(response_text, f) ==
    IF f = "mcq" THEN parse_mcq_response(response_text)
    ELSE IF f = "cloze" THEN parse_cloze_response(response_text)
    ELSE IF f = "basic" THEN parse_basic_response(response_text)
    ELSE <<>>

parse_response(response_text, f) ==
    IF f = "mcq" THEN parse_mcq_response(response_text)
    ELSE IF f = "cloze" THEN parse_cloze_response(response_text)
    ELSE IF f = "basic" THEN parse_basic_response(response_text)
    ELSE parse_mcq_response(response_text)

----------------------------------------------------------------------------
(* The response texts the parsers are run on                               *)

FormatTags == {"mcq", "cloze", "basic", "MCQ"}

(* values of the question/text column and of the choices/back column *)
ColumnPairs ==
    { <<<<" ", "q", " ">>, <<"b">>>>,
      <<<<>>,              <<"b">>>>,
      <<<<" ">>,           <<"b">>>>,
      <<<<"q">>,           <<>>>>,
      <<<<"{", "{", "c", "1">>, <<"b", " ">>>>,
      <<<<"{", "c">>,      <<>>>> }

Column(i, pair, first) ==
    CASE i = 1 -> first
      [] i = 2 -> pair[1]
      [] i = 3 -> pair[2]
      [] i = 4 -> <<"a">>
      [] i = 5 -> <<" ", "e">>
      [] OTHER -> <<"x">>

RECURSIVE JoinWith(_, _)
JoinWith(pieces, sep) ==
    IF pieces = <<>> THEN <<>>
    ELSE IF Len(pieces) = 1 THEN pieces[1]
    ELSE pieces[1] \o <<sep>> \o JoinWith(Tail(pieces), sep)

MkLine(n, pair, first) == JoinWith([i \in 1..n |-> Column(i, pair, first)], "|")

Lines ==
    { MkLine(n, pair, <<" ", "s">>) : n \in 1..MaxCols, pair \in ColumnPairs }
    \cup { MkLine(n, <<<<"q">>, <<"b">>>>, <<" ", "#", "s">>) : n \in {1, 5} }
    \cup { <<>>, <<" ">> }

Responses ==
    { JoinWith(ls, "\n") : ls \in UNION { [1..n -> Lines] : n \in 0..MaxLines } }

----------------------------------------------------------------------------
(* Part 2: the profile store, the configuration and the settings dialog.   *)
(*                                                                         *)
(* A Python dict is a record [order, at]: the keys in insertion order and  *)
(* the value of each key.  Field names and slot labels are sequences of    *)
(* characters, profile keys, display names and prompts are strings.        *)

MaxProfiles == 5
MaxOps == 3

None == [none |-> TRUE]

Keys(d) == {d.order[i] : i \in 1..Len(d.order)}

DictPut(d, k, v) ==
    IF k \in Keys(d)
    THEN [order |-> d.order, at |-> [j \in Keys(d) |-> IF j = k THEN v ELSE d.at[j]]]
    ELSE [order |-> Append(d.order, k),
          at |-> [j \in Keys(d) \cup {k} |-> IF j = k THEN v ELSE d.at[j]]]

DictDel(d, k) ==
    [order |-> SelectSeq(d.order, LAMBDA j : j # k),
     at |-> [j \in Keys(d) \ {k} |-> d.at[j]]]

(* dict.get(k, default) on a record *)
Get(r, k, default) == IF k \in DOMAIN r THEN r[k] ELSE default

(* r[k] = v on a record *)
Put(r, k, v) == [j \in DOMAIN r \cup {k} |-> IF j = k THEN v ELSE r[j]]

(* field names of note types and the labels of SLOT_META *)
N_Question == <<"Q", "u", "e", "s", "t", "i", "o", "n">>
N_MultipleChoice == <<"M", "u", "l", "t", "i", "p", "l", "e", " ", "C", "h", "o", "i", "c", "e">>
N_CorrectAnswers == <<"C", "o", "r", "r", "e", "c", "t", " ", "A", "n", "s", "w", "e", "r", "s">>
N_Extra == <<"E", "x", "t", "r", "a">>
N_ExtraNotes == <<"E", "x", "t", "r", "a", " ", "/", " ", "N", "o", "t", "e", "s">>
N_Text == <<"T", "e", "x", "t">>
N_Front == <<"F", "r", "o", "n", "t">>
N_Back == <<"B", "a", "c", "k">>
N_BackExtra == <<"B", "a", "c", "k", " ", "E", "x", "t", "r", "a">>

UpperCase == <<"A", "B", "C", "D", "E", "F", "G", "H", "I", "J", "K", "L", "M",
               "N", "O", "P", "Q", "R", "S", "T", "U", "V", "W", "X", "Y", "Z">>
LowerCase == <<"a", "b", "c", "d", "e", "f", "g", "h", "i", "j", "k", "l", "m",
               "n", "o", "p", "q", "r", "s", "t", "u", "v", "w", "x", "y", "z">>

lower(s) ==
    [i \in 1..Len(s) |->
        IF \E j \in 1..26 : UpperCase[j] = s[i]
        THEN LowerCase[CHOOSE j \in 1..26 : UpperCase[j] = s[i]]
        ELSE s[i]]

SLOT_QUESTION == "question"
SLOT_CHOICES == "choices"
SLOT_ANSWER == "answer"
SLOT_TEXT == "text"
SLOT_EXTRA == "extra"

MCQ_PROMPT == "MCQ_PROMPT"
CLOZE_PROMPT == "CLOZE_PROMPT"
BASIC_PROMPT == "BASIC_PROMPT"

DEFAULT_PROFILES ==
    [order |-> <<"MCQ", "Cloze", "Basic">>,
     at |-> [MCQ |-> [display_name |-> "Multiple Choice (MCQ)",
                      format |-> "mcq",
                      prompt |-> MCQ_PROMPT,
                      field_map |-> [question |-> N_Question,
                                     choices |-> N_MultipleChoice,
                                     answer |-> N_CorrectAnswers,
                                     extra |-> N_Extra]],
             Cloze |-> [display_name |-> "Cloze Deletion",
                        format |-> "cloze",
                        prompt |-> CLOZE_PROMPT,
                        field_map |-> [text |-> N_Text, extra |-> N_Extra]],
             Basic |-> [display_name |-> "Basic (Front / Back)",
                        format |-> "basic",
                        prompt |-> BASIC_PROMPT,
                        field_map |-> [question |-> N_Front,
                                       answer |-> N_Back,
                                       extra |-> N_Extra]]]]

SLOT_META(f) ==
    CASE f = "mcq" -> << [slot |-> SLOT_QUESTION, label |-> N_Question],
                         [slot |-> SLOT_CHOICES, label |-> N_MultipleChoice],
                         [slot |-> SLOT_ANSWER, label |-> N_CorrectAnswers],
                         [slot |-> SLOT_EXTRA, label |-> N_ExtraNotes] >>
      [] f = "cloze" -> << [slot |-> SLOT_TEXT, label |-> N_Text],
                           [slot |-> SLOT_EXTRA, label |-> N_ExtraNotes] >>
      [] f = "basic" -> << [slot |-> SLOT_QUESTION, label |-> N_Front],
                           [slot |-> SLOT_ANSWER, label |-> N_Back],
                           [slot |-> SLOT_EXTRA, label |-> N_ExtraNotes] >>
      [] OTHER -> <<>>

(* an API key after strip(): whether it starts with "AIzaSy", and its length *)
NoApiKey == [google |-> FALSE, len |-> 0]

validate_api_key(api_key) ==
    /\ api_key.len # 0
    /\ api_key.google
    /\ ~(api_key.len < 30)

get_default_config ==
    [api_key |-> NoApiKey,
     active_profile |-> "MCQ",
     profiles |-> DEFAULT_PROFILES]

(* module import, lines 312-321: the configuration in memory after the load *)
load_config_ReseedsPrompts(got) ==
    LET c == IF got = None THEN get_default_config ELSE got
    IN  IF "profiles" \notin DOMAIN c
        THEN Put(Put(c, "profiles", DEFAULT_PROFILES), "active_profile", "MCQ")
        ELSE Put(c, "profiles",
                 [order |-> c.profiles.order,
                  at |-> [k \in Keys(c.profiles) |->
                             IF k \in Keys(DEFAULT_PROFILES)
                             THEN Put(c.profiles.at[k], "prompt",
                                      DEFAULT_PROFILES.at[k].prompt)
                             ELSE c.profiles.at[k]]])

load_config(got) ==
    LET c == IF got = None THEN get_default_config ELSE got
    IN  IF "profiles" \notin DOMAIN c
        THEN Put(Put(c, "profiles", DEFAULT_PROFILES), "active_profile", "MCQ")
        ELSE c

get_active_profile(config) ==
    LET profile_key == Get(config, "active_profile", "MCQ")
        profiles == Get(config, "profiles", DEFAULT_PROFILES)
    IN  IF profile_key \in Keys(profiles)
        THEN profiles.at[profile_key]
        ELSE DEFAULT_PROFILES.at["MCQ"]

(* the note types of the collection: mw.col.models.all() *)
NoteTypes ==
    << [id |-> 1, flds |-> <<N_Front, N_Back>>],
       [id |-> 2, flds |-> <<N_Text, N_BackExtra>>] >>

----------------------------------------------------------------------------
(* FieldMappingWidget: one combo box per slot of the format                *)

IndexOf(seq, x) ==
    IF \E i \in 1..Len(seq) : seq[i] = x
    THEN CHOOSE i \in 1..Len(seq) : seq[i] = x /\ \A j \in 1..(i - 1) : seq[j] # x
    ELSE 0

(* the text a combo shows after FieldMappingWidget.__init__ filled it *)
combo_initial_text(label, current, anki_fields) ==
    LET keyword == strip(split(lower(label), "/")[1])
        hits == {i \in 1..Len(anki_fields) : contains(lower(anki_fields[i]), keyword)}
    IN  IF IndexOf(anki_fields, current) # 0 THEN current
        ELSE IF anki_fields = <<>> THEN <<>>
        ELSE IF hits # {} THEN anki_fields[CHOOSE i \in hits : \A j \in hits : i <= j]
        ELSE anki_fields[1]

FieldMappingWidget(f, field_map, anki_fields) ==
    LET slots == SLOT_META(f)
    IN  [fmt |-> f,
         combos |-> [s \in {slots[i].slot : i \in 1..Len(slots)} |->
                        LET meta == slots[CHOOSE i \in 1..Len(slots) : slots[i].slot = s]
                        IN  combo_initial_text(meta.label, Get(field_map, s, <<>>),
                                               anki_fields)]]

get_mapping(widget) == widget.combos

update_anki_fields(widget, anki_fields) ==
    [fmt |-> widget.fmt,
     combos |-> [s \in DOMAIN widget.combos |->
                    IF IndexOf(anki_fields, widget.combos[s]) # 0 THEN widget.combos[s]
                    ELSE IF anki_fields = <<>> THEN <<>>
                    ELSE anki_fields[1]]]

----------------------------------------------------------------------------
(* GeminiSettings: the helpers of the dialog                               *)

NoDict == [order |-> <<>>, at |-> <<>>]
NoCombo == [items |-> <<>>, idx |-> 0]
NoWidget == [fmt |-> "", combos |-> <<>>]

(* nt_combo is the index of the selected note type, 0 when there is none *)
NoteTypeIndex(nt_id) ==
    IF \E i \in 1..Len(NoteTypes) : NoteTypes[i].id = nt_id
    THEN CHOOSE i \in 1..Len(NoteTypes) : NoteTypes[i].id = nt_id
    ELSE 0

refresh_note_types(config) ==
    LET saved_id == Get(config, "note_type_id", 0)
    IN  IF saved_id # 0 /\ NoteTypeIndex(saved_id) # 0 THEN NoteTypeIndex(saved_id)
        ELSE IF NoteTypes = <<>> THEN 0
        ELSE 1

get_current_anki_fields(nt) == IF nt = 0 THEN <<>> ELSE NoteTypes[nt].flds

current_profile_key(combo, profiles) ==
    IF combo.idx # 0 THEN combo.items[combo.idx] ELSE profiles.order[1]

rebuild_field_mapping(profile, nt) ==
    FieldMappingWidget(Get(profile, "format", "mcq"), Get(profile, "field_map", <<>>),
                       get_current_anki_fields(nt))

(* _on_profile_changed: the widget rebuilt for the profile the combo shows *)
on_profile_changed(profiles, combo, nt) ==
    LET key == current_profile_key(combo, profiles)
    IN  rebuild_field_mapping(IF key \in Keys(profiles) THEN profiles.at[key] ELSE <<>>, nt)

(* _refresh_profile_combo: the combo rebuilt, showing the active profile *)
refresh_profile_combo(profiles, active) ==
    [items |-> profiles.order,
     idx |-> IF IndexOf(profiles.order, active) # 0 THEN IndexOf(profiles.order, active)
             ELSE IF profiles.order = <<>> THEN 0
             ELSE 1]

unique_key_TakesBaseName(base_name, profiles) ==
    base_name

unique_key(base_name, profiles) ==
    IF base_name \notin Keys(profiles) THEN base_name
    ELSE LET n == CHOOSE n \in 1..(Len(profiles.order) + 1) :
                      /\ (base_name \o " " \o ToString(n)) \notin Keys(profiles)
                      /\ \A m \in 1..(n - 1) :
                             (base_name \o " " \o ToString(m)) \in Keys(profiles)
         IN  base_name \o " " \o ToString(n)

----------------------------------------------------------------------------
(* The application: configuration load, settings dialog, restart           *)

appVars == <<stored, CONFIG, pc, default_profiles, CONFIG_dict>>
dialogVars == <<dialog, _profiles, _active_profile_key, profile_combo, nt_combo,
                _field_mapping_widget, _profiles_dict>>

(* Dict objects are told apart by a name: "DEFAULT_PROFILES" is the module-level *)
(* dict, "json" the one getConfig built from the file, "working" the one a      *)
(* dialog built for itself, "saved" that one once the dialog has stored it in   *)
(* CONFIG and is gone; "" is no object.                                          *)

deepcopy_SameObject(obj) == obj

(* copy.deepcopy: a new dict, referred to by the dialog alone *)
deepcopy(obj) == "working"

(* an assignment into the dict self._profiles refers to, as every name that *)
(* refers to the same dict sees it                                           *)
InPlace(profiles) ==
    /\ CONFIG' = IF _profiles_dict = CONFIG_dict
                 THEN Put(CONFIG, "profiles", profiles) ELSE CONFIG
    /\ default_profiles' = IF _profiles_dict = "DEFAULT_PROFILES"
                           THEN profiles ELSE default_profiles
    /\ UNCHANGED <<stored, pc, CONFIG_dict>>

ValidKey == [google |-> TRUE, len |-> 39]
ShortKey == [google |-> TRUE, len |-> 12]
ApiKeyInputs == {NoApiKey, ValidKey, ShortKey}

PromptInputs == {"", "edited"}
NameInputs == {"Mine"}

MineProfile ==
    [display_name |-> "Mine", format |-> "cloze", prompt |-> "edited",
     field_map |-> [text |-> N_Text, extra |-> N_BackExtra]]

(* configurations found on disk at the first start: none, one written by    *)
(* version 3 (no profiles), and hand-edited or foreign ones                 *)
StoredConfigs ==
    { None,
      [api_key |-> ValidKey, note_type_id |-> 1],
      [api_key |-> ValidKey, note_type_id |-> 2, active_profile |-> "Gone",
       profiles |-> DictPut(DEFAULT_PROFILES, "MCQ",
                            Put(DEFAULT_PROFILES.at["MCQ"], "prompt", "edited"))],
      [api_key |-> NoApiKey, active_profile |-> "Mine",
       profiles |-> [order |-> <<"Cloze", "Basic", "Mine">>,
                     at |-> [Cloze |-> DEFAULT_PROFILES.at["Cloze"],
                             Basic |-> DEFAULT_PROFILES.at["Basic"],
                             Mine |-> MineProfile]]],
      [api_key |-> ValidKey,
       profiles |-> DictPut(DEFAULT_PROFILES, "MCQ",
                            [display_name |-> "Multiple Choice (MCQ)", prompt |-> ""])] }

DialogClosed ==
    /\ dialog' = "closed"
    /\ _profiles' = NoDict
    /\ _active_profile_key' = ""
    /\ profile_combo' = NoCombo
    /\ nt_combo' = 0
    /\ _field_mapping_widget' = NoWidget
    /\ _profiles_dict' = ""

(* the store before the module is imported *)
StoreIdle(config) ==
    /\ stored = config
    /\ CONFIG = None
    /\ pc = "unloaded"
    /\ dialog = "closed"
    /\ _profiles = NoDict
    /\ _active_profile_key = ""
    /\ profile_combo = NoCombo
    /\ nt_combo = 0
    /\ _field_mapping_widget = NoWidget
    /\ default_profiles = DEFAULT_PROFILES
    /\ CONFIG_dict = ""
    /\ _profiles_dict = ""
    /\ ops = 0
    /\ last = <<"start", "">>

InitStore ==
    /\ \E config \in StoredConfigs : StoreIdle(config)
    /\ ParseIdle
    /\ ResolveIdle
    /\ ImportIdle
    /\ SanitizeIdle
    /\ SortIdle

(* lines 312-321 *)
LoadConfig ==
    /\ pc = "unloaded"
    /\ CONFIG' = load_config(stored)
    /\ stored' = IF stored = None \/ "profiles" \notin DOMAIN stored
                 THEN load_config(stored)
                 ELSE stored
    /\ pc' = "running"
    /\ default_profiles' = DEFAULT_PROFILES
    /\ CONFIG_dict' = IF stored = None \/ "profiles" \notin DOMAIN stored
                      THEN "DEFAULT_PROFILES" ELSE "json"
    /\ last' = <<"load", IF stored = None \/ "profiles" \notin DOMAIN stored
                         THEN "written" ELSE "kept">>
    /\ UNCHANGED <<dialogVars, ops, nonStoreVars>>

(* Anki is closed and started again: the module is imported anew *)
Restart ==
    /\ pc = "running"
    /\ dialog = "closed"
    /\ pc' = "unloaded"
    /\ CONFIG' = None
    /\ CONFIG_dict' = ""
    /\ last' = <<"restart", "">>
    /\ UNCHANGED <<stored, default_profiles, dialogVars, ops, nonStoreVars>>

(* GeminiSettings.__init__: the working copy and the widgets *)
OpenDialog ==
    /\ LET profiles == Get(CONFIG, "profiles", DEFAULT_PROFILES)
           active == Get(CONFIG, "active_profile", "MCQ")
           nt == refresh_note_types(CONFIG)
           combo == refresh_profile_combo(profiles, active)
       IN  /\ _profiles' = profiles
           /\ _active_profile_key' = active
           /\ nt_combo' = nt
           /\ profile_combo' = combo
           /\ _field_mapping_widget' = on_profile_changed(profiles, combo, nt)
    /\ _profiles_dict' = deepcopy(IF "profiles" \in DOMAIN CONFIG
                                  THEN CONFIG_dict ELSE "DEFAULT_PROFILES")
    /\ dialog' = "open"

(* the menu entry of the settings *)
OpenSettings ==
    /\ pc = "running"
    /\ dialog = "closed"
    /\ Get(CONFIG, "profiles", DEFAULT_PROFILES).order # <<>>
    /\ OpenDialog
    /\ last' = <<"open", "">>
    /\ UNCHANGED <<appVars, ops, nonStoreVars>>

(* the Cancel button: QDialog.reject *)
Cancel ==
    /\ dialog = "open"
    /\ DialogClosed
    /\ last' = <<"cancel", "">>
    /\ UNCHANGED <<appVars, ops, nonStoreVars>>

(* a dialog operation can be performed: the dialog is shown *)
CanOperate == dialog = "open" /\ ops < MaxOps

Step(op, outcome) ==
    /\ ops' = ops + 1
    /\ last' = <<op, outcome>>
    /\ UNCHANGED nonStoreVars

CurrentKey == current_profile_key(profile_combo, _profiles)

Refreshed_KeepsWidget(profiles, active) ==
    /\ _profiles' = profiles
    /\ _active_profile_key' = active
    /\ profile_combo' = refresh_profile_combo(profiles, active)
    /\ UNCHANGED <<dialog, nt_combo, _field_mapping_widget>>

(* the profiles and the active key changed, then _refresh_profile_combo *)
Refreshed(profiles, active) ==
    LET combo == refresh_profile_combo(profiles, active)
    IN  /\ _profiles' = profiles
        /\ _active_profile_key' = active
        /\ profile_combo' = combo
        /\ _field_mapping_widget' = on_profile_changed(profiles, combo, nt_combo)
        /\ UNCHANGED <<dialog, nt_combo>>

SelectProfile_StoresSelection(i) ==
    /\ CanOperate
    /\ Step("_on_profile_changed", "")
    /\ i \in 1..Len(profile_combo.items)
    /\ i # profile_combo.idx
    /\ profile_combo' = [profile_combo EXCEPT !.idx = i]
    /\ _profiles' = DictPut(_profiles, CurrentKey,
                            Put(_profiles.at[CurrentKey], "field_map",
                                get_mapping(_field_mapping_widget)))
    /\ _field_mapping_widget' =
           on_profile_changed(_profiles, [profile_combo EXCEPT !.idx = i], nt_combo)
    /\ InPlace(_profiles')
    /\ UNCHANGED <<dialog, _active_profile_key, nt_combo, _profiles_dict>>

(* the user picks another entry of profile_combo: _on_profile_changed *)
SelectProfile(i) ==
    /\ CanOperate
    /\ Step("_on_profile_changed", "")
    /\ i \in 1..Len(profile_combo.items)
    /\ i # profile_combo.idx
    /\ profile_combo' = [profile_combo EXCEPT !.idx = i]
    /\ _field_mapping_widget' =
           on_profile_changed(_profiles, [profile_combo EXCEPT !.idx = i], nt_combo)
    /\ UNCHANGED <<appVars, dialog, _profiles, _active_profile_key, nt_combo,
                   _profiles_dict>>

_on_profile_name_changed(text) ==
    /\ CanOperate
    /\ Step("_on_profile_name_changed", "")
    /\ CurrentKey \in Keys(_profiles)
    /\ text # Get(_profiles.at[CurrentKey], "display_name", CurrentKey)
    /\ _profiles' = DictPut(_profiles, CurrentKey,
                            Put(_profiles.at[CurrentKey], "display_name", text))
    /\ InPlace(_profiles')
    /\ UNCHANGED <<dialog, _active_profile_key, profile_combo, nt_combo,
                   _field_mapping_widget, _profiles_dict>>

_on_prompt_changed(text) ==
    /\ CanOperate
    /\ Step("_on_prompt_changed", "")
    /\ CurrentKey \in Keys(_profiles)
    /\ text # Get(_profiles.at[CurrentKey], "prompt", "")
    /\ _profiles' = DictPut(_profiles, CurrentKey,
                            Put(_profiles.at[CurrentKey], "prompt", text))
    /\ InPlace(_profiles')
    /\ UNCHANGED <<dialog, _active_profile_key, profile_combo, nt_combo,
                   _field_mapping_widget, _profiles_dict>>

_set_active_profile ==
    /\ CanOperate
    /\ Step("_set_active_profile", "")
    /\ Refreshed(_profiles, CurrentKey)
    /\ UNCHANGED <<appVars, _profiles_dict>>

_duplicate_profile ==
    /\ CanOperate
    /\ Len(_profiles.order) < MaxProfiles
    /\ Step("_duplicate_profile", "")
    /\ LET key == CurrentKey
           base_name == Get(_profiles.at[key], "display_name", key) \o " (Copy)"
           new_key == unique_key(base_name, _profiles)
           profiles == DictPut(_profiles, new_key,
                               Put(_profiles.at[key], "display_name", base_name))
           combo == [items |-> profiles.order, idx |-> IndexOf(profiles.order, new_key)]
       IN  /\ _profiles' = profiles
           /\ profile_combo' = combo
           /\ _field_mapping_widget' = on_profile_changed(profiles, combo, nt_combo)
           /\ InPlace(profiles)
    /\ UNCHANGED <<dialog, _active_profile_key, nt_combo, _profiles_dict>>

_delete_profile_NoBuiltinCheck(confirm) ==
    /\ CanOperate
    /\ IF ~confirm
       THEN /\ Step("_delete_profile", "declined")
            /\ UNCHANGED <<appVars, dialogVars>>
       ELSE /\ Step("_delete_profile", "deleted")
            /\ Refreshed(DictDel(_profiles, CurrentKey),
                         IF _active_profile_key = CurrentKey
                         THEN "MCQ" ELSE _active_profile_key)
            /\ InPlace(DictDel(_profiles, CurrentKey))
            /\ UNCHANGED _profiles_dict

_delete_profile(confirm) ==
    /\ CanOperate
    /\ IF CurrentKey \in Keys(DEFAULT_PROFILES)
       THEN /\ Step("_delete_profile", "rejected")
            /\ UNCHANGED <<appVars, dialogVars>>
       ELSE IF ~confirm
       THEN /\ Step("_delete_profile", "declined")
            /\ UNCHANGED <<appVars, dialogVars>>
       ELSE /\ Step("_delete_profile", "deleted")
            /\ Refreshed(DictDel(_profiles, CurrentKey),
                         IF _active_profile_key = CurrentKey
                         THEN "MCQ" ELSE _active_profile_key)
            /\ InPlace(DictDel(_profiles, CurrentKey))
            /\ UNCHANGED _profiles_dict

_reset_prompt_NoBuiltinCheck(confirm) ==
    /\ CanOperate
    /\ IF ~confirm
       THEN /\ Step("_reset_prompt", "declined")
            /\ UNCHANGED <<appVars, dialogVars>>
       ELSE /\ Step("_reset_prompt", "reset")
            /\ _profiles' = DictPut(_profiles, CurrentKey,
                                    Put(_profiles.at[CurrentKey], "prompt",
                                        Get(DEFAULT_PROFILES.at, CurrentKey,
                                            DEFAULT_PROFILES.at["MCQ"]).prompt))
            /\ InPlace(_profiles')
            /\ UNCHANGED <<dialog, _active_profile_key, profile_combo, nt_combo,
                           _field_mapping_widget, _profiles_dict>>

_reset_prompt(confirm) ==
    /\ CanOperate
    /\ IF CurrentKey \notin Keys(DEFAULT_PROFILES)
       THEN /\ Step("_reset_prompt", "rejected")
            /\ UNCHANGED <<appVars, dialogVars>>
       ELSE IF ~confirm
       THEN /\ Step("_reset_prompt", "declined")
            /\ UNCHANGED <<appVars, dialogVars>>
       ELSE /\ Step("_reset_prompt", "reset")
            /\ _profiles' = DictPut(_profiles, CurrentKey,
                                    Put(_profiles.at[CurrentKey], "prompt",
                                        default_profiles.at[CurrentKey].prompt))
            /\ InPlace(_profiles')
            /\ UNCHANGED <<dialog, _active_profile_key, profile_combo, nt_combo,
                           _field_mapping_widget, _profiles_dict>>

reset_all_profiles(confirm) ==
    /\ CanOperate
    /\ IF ~confirm
       THEN /\ Step("reset_all_profiles", "declined")
            /\ UNCHANGED <<appVars, dialogVars>>
       ELSE /\ Step("reset_all_profiles", "reset")
            /\ Refreshed(default_profiles, "MCQ")
            /\ _profiles_dict' = deepcopy("DEFAULT_PROFILES")
            /\ UNCHANGED appVars

(* the user picks another note type: _on_note_type_changed *)
SelectNoteType(i) ==
    /\ CanOperate
    /\ Step("_on_note_type_changed", "")
    /\ i \in 1..Len(NoteTypes)
    /\ i # nt_combo
    /\ nt_combo' = i
    /\ _field_mapping_widget' =
           update_anki_fields(_field_mapping_widget, get_current_anki_fields(i))
    /\ UNCHANGED <<appVars, dialog, _profiles, _active_profile_key, profile_combo,
                   _profiles_dict>>

(* the Refresh button: _refresh_note_types(silent=False) *)
_refresh_note_types ==
    /\ CanOperate
    /\ Step("_refresh_note_types", "")
    /\ nt_combo' = refresh_note_types(CONFIG)
    /\ _field_mapping_widget' =
           update_anki_fields(_field_mapping_widget,
                              get_current_anki_fields(refresh_note_types(CONFIG)))
    /\ UNCHANGED <<appVars, dialog, _profiles, _active_profile_key, profile_combo,
                   _profiles_dict>>

(* the user picks a field in the combo of one slot of the mapping widget *)
SelectField(slot, i) ==
    /\ CanOperate
    /\ Step("select_field", slot)
    /\ slot \in DOMAIN _field_mapping_widget.combos
    /\ i \in 1..Len(get_current_anki_fields(nt_combo))
    /\ get_current_anki_fields(nt_combo)[i] # _field_mapping_widget.combos[slot]
    /\ _field_mapping_widget' =
           [_field_mapping_widget EXCEPT !.combos[slot] = get_current_anki_fields(nt_combo)[i]]
    /\ UNCHANGED <<appVars, dialog, _profiles, _active_profile_key, profile_combo, nt_combo,
                   _profiles_dict>>

save_config(api_key, confirm) ==
    /\ CanOperate
    /\ IF api_key.len # 0 /\ ~validate_api_key(api_key)
       THEN /\ Step("save_config", "invalid key")
            /\ UNCHANGED <<appVars, dialogVars>>
       ELSE IF nt_combo = 0 /\ ~confirm
       THEN /\ Step("save_config", "declined")
            /\ UNCHANGED <<appVars, dialogVars>>
       ELSE LET key == CurrentKey
                profiles == IF key \in Keys(_profiles)
                            THEN DictPut(_profiles, key,
                                         Put(_profiles.at[key], "field_map",
                                             get_mapping(_field_mapping_widget)))
                            ELSE _profiles
                config == Put(Put(Put(Put(CONFIG,
                              "api_key", api_key),
                              "note_type_id", IF nt_combo = 0 THEN 0 ELSE NoteTypes[nt_combo].id),
                              "active_profile", _active_profile_key),
                              "profiles", profiles)
            IN  /\ Step("save_config", "saved")
                /\ CONFIG' = config
                /\ stored' = config
                /\ default_profiles' = IF _profiles_dict = "DEFAULT_PROFILES"
                                       THEN profiles ELSE default_profiles
                /\ CONFIG_dict' = IF _profiles_dict = "working"
                                  THEN "saved" ELSE _profiles_dict
                /\ DialogClosed
                /\ UNCHANGED pc

NextStore ==
    \/ LoadConfig
    \/ Restart
    \/ OpenSettings
    \/ Cancel
    \/ \E i \in 1..MaxProfiles : SelectProfile(i)
    \/ \E text \in NameInputs : _on_profile_name_changed(text)
    \/ \E text \in PromptInputs : _on_prompt_changed(text)
    \/ _set_active_profile
    \/ _duplicate_profile
    \/ \E confirm \in BOOLEAN : _delete_profile(confirm)
    \/ \E confirm \in BOOLEAN : _reset_prompt(confirm)
    \/ \E confirm \in BOOLEAN : reset_all_profiles(confirm)
    \/ \E i \in 1..Len(NoteTypes) : SelectNoteType(i)
    \/ _refresh_note_types
    \/ \E slot \in {SLOT_QUESTION, SLOT_CHOICES, SLOT_ANSWER, SLOT_TEXT, SLOT_EXTRA},
          i \in 1..2 : SelectField(slot, i)
    \/ \E api_key \in ApiKeyInputs, confirm \in BOOLEAN : save_config(api_key, confirm)

SpecStore == InitStore /\ [][NextStore]_vars

----------------------------------------------------------------------------
(* The parser specification                                                *)

InitParse ==
    /\ response \in Responses
    /\ fmt = ""
    /\ cards = <<>>
    /\ ppc = "input"
    /\ StoreIdle(None)
    /\ ResolveIdle
    /\ ImportIdle
    /\ SanitizeIdle
    /\ SortIdle

ParseResponse(f) ==
    /\ ppc = "input"
    /\ fmt' = f
    /\ cards' = parse_response(response, f)
    /\ ppc' = "parsed"
    /\ UNCHANGED <<response, storeVars, resolveVars, importVars, sanitizeVars, sortVars>>

NextParse == \E f \in FormatTags : ParseResponse(f)

SpecParse == InitParse /\ [][NextParse]_vars

----------------------------------------------------------------------------
(* Part 3: run_importer, step 8: the slots of the active profile are        *)
(* resolved to field names of the note type.  An Optional[str] is a         *)
(* sequence of at most one field name: <<>> is None.                        *)

MaxFields == 3

resolve_field_PositionFirst(slot_key, fallback_idx, field_map, names) ==
    IF fallback_idx < Len(names) THEN <<names[fallback_idx + 1]>>
    ELSE IF Get(field_map, slot_key, <<>>) # <<>>
            /\ IndexOf(names, Get(field_map, slot_key, <<>>)) # 0
    THEN <<Get(field_map, slot_key, <<>>)>>
    ELSE <<>>

resolve_field(slot_key, fallback_idx, field_map, names) ==
    LET mapped == Get(field_map, slot_key, <<>>)
    IN  IF mapped # <<>> /\ IndexOf(names, mapped) # 0 THEN <<mapped>>
        ELSE IF fallback_idx < Len(names) THEN <<names[fallback_idx + 1]>>
        ELSE <<>>

(* lines 1584-1596: f_question, f_choices, f_answer, f_text, f_extra *)
resolve_slots(f, field_map, names) ==
    CASE f = "mcq" ->
             [question |-> resolve_field(SLOT_QUESTION, 0, field_map, names),
              choices |-> resolve_field(SLOT_CHOICES, 1, field_map, names),
              answer |-> resolve_field(SLOT_ANSWER, 2, field_map, names),
              extra |-> resolve_field(SLOT_EXTRA, 3, field_map, names)]
      [] f = "cloze" ->
             [text |-> resolve_field(SLOT_TEXT, 0, field_map, names),
              extra |-> resolve_field(SLOT_EXTRA, 1, field_map, names)]
      [] f = "basic" ->
             [question |-> resolve_field(SLOT_QUESTION, 0, field_map, names),
              answer |-> resolve_field(SLOT_ANSWER, 1, field_map, names),
              extra |-> resolve_field(SLOT_EXTRA, 2, field_map, names)]
      [] OTHER -> <<>>

(* the slot keys of a format, in the order run_importer resolves them *)
SlotOrder(f) == [i \in 1..Len(SLOT_META(f)) |-> SLOT_META(f)[i].slot]

SlotKeys(f) == {SlotOrder(f)[i] : i \in 1..Len(SlotOrder(f))}

(* field names of note types *)
FieldPool == {N_Text, N_Extra, N_BackExtra, N_Front}

(* the field names of a note type: distinct names *)
Schemas ==
    {names \in UNION {[1..n -> FieldPool] : n \in 0..MaxFields} :
        \A i, j \in 1..Len(names) : i # j => names[i] # names[j]}

(* a field_map: every slot mapped to a name or to "", or no slot mapped *)
FieldMaps(f) == [SlotKeys(f) -> FieldPool \cup {<<>>}] \cup {<<>>}

InitResolve ==
    /\ profile_fmt \in {"mcq", "cloze", "basic"}
    /\ profile_field_map \in FieldMaps(profile_fmt)
    /\ anki_field_names \in Schemas
    /\ f_field = <<>>
    /\ rpc = "input"
    /\ ParseIdle
    /\ StoreIdle(None)
    /\ ImportIdle
    /\ SanitizeIdle
    /\ SortIdle

ResolveFields ==
    /\ rpc = "input"
    /\ f_field' = resolve_slots(profile_fmt, profile_field_map, anki_field_names)
    /\ rpc' = "resolved"
    /\ UNCHANGED <<profile_fmt, profile_field_map, anki_field_names, parseVars, storeVars,
                   importVars, sanitizeVars, sortVars>>

NextResolve == ResolveFields

SpecResolve == InitResolve /\ [][NextResolve]_vars

----------------------------------------------------------------------------
(* Part 4: sanitize_deck_name.  Deck names are sequences of characters.     *)

MaxName == 3

(* str.split(sep) with a separator of several characters *)
RECURSIVE split_on(_, _)
split_on(s, sep) ==
    IF \E i \in 1..(Len(s) - Len(sep) + 1) : SubSeq(s, i, i + Len(sep) - 1) = sep
    THEN LET i == CHOOSE i \in 1..(Len(s) - Len(sep) + 1) :
                     /\ SubSeq(s, i, i + Len(sep) - 1) = sep
                     /\ \A j \in 1..(i - 1) : SubSeq(s, j, j + Len(sep) - 1) # sep
         IN  <<SubSeq(s, 1, i - 1)>> \o split_on(SubSeq(s, i + Len(sep), Len(s)), sep)
    ELSE <<s>>

(* sep.join(pieces) *)
RECURSIVE join(_, _)
join(pieces, sep) ==
    IF pieces = <<>> THEN <<>>
    ELSE IF Len(pieces) = 1 THEN pieces[1]
    ELSE pieces[1] \o sep \o join(Tail(pieces), sep)

(* the character class of the re.sub of line 439 *)
StrippedChars == {"\\", "/", "*", "?", "\"", "<", ">", "|"}

Imported == <<"I", "m", "p", "o", "r", "t", "e", "d">>

sanitize_deck_name_NoFallback(n) ==
    LET parts == split_on(n, <<":", ":">>)
        sanitized == [i \in 1..Len(parts) |->
                         strip(SelectSeq(parts[i], LAMBDA c : c \notin StrippedChars))]
    IN  join(SelectSeq(sanitized, LAMBDA part : part # <<>>), <<":", ":">>)

sanitize_deck_name(n) ==
    LET parts == split_on(n, <<":", ":">>)
        sanitized == [i \in 1..Len(parts) |->
                         strip(SelectSeq(parts[i], LAMBDA c : c \notin StrippedChars))]
        sanitized_parts == SelectSeq(sanitized, LAMBDA part : part # <<>>)
        joined == join(sanitized_parts, <<":", ":">>)
    IN  IF joined # <<>> THEN joined ELSE Imported

NameAlphabet == {"A", " ", ":", "\\", "/", "*", "?", "\"", "<", ">", "|"}

ExampleName == <<"A", "/", "B", ":", ":", "C", "*", "D">>

DeckNames == UNION {[1..n -> NameAlphabet] : n \in 0..MaxName} \cup {ExampleName}

InitSanitize ==
    /\ name \in DeckNames
    /\ result = <<>>
    /\ spc = "input"
    /\ ParseIdle
    /\ StoreIdle(None)
    /\ ResolveIdle
    /\ ImportIdle
    /\ SortIdle

Sanitize ==
    /\ spc = "input"
    /\ result' = sanitize_deck_name(name)
    /\ spc' = "sanitized"
    /\ UNCHANGED <<name, parseVars, storeVars, resolveVars, importVars, sortVars>>

NextSanitize == Sanitize

SpecSanitize == InitSanitize /\ [][NextSanitize]_vars

----------------------------------------------------------------------------
(* Part 5: run_importer, step 6: valid_files.sort(key=natural_sort_key).    *)
(* Base names are sequences of characters.  A key is a list whose elements  *)
(* are [int |-> n] or [str |-> s].                                          *)

MaxBase == 2
MaxSort == 2

(* the decimal digits: matched by \d, accepted by int() *)
DigitChars == <<"0", "1", "2", "3", "4", "5", "6", "7", "8", "9">>

Decimal == {DigitChars[i] : i \in 1..Len(DigitChars)}

(* U+00B2 SUPERSCRIPT TWO: str.isdigit() is true of it, \d does not match   *)
(* it and int() rejects it                                                  *)
SuperscriptTwo == "^2"

(* the code point of a character *)
ord(c) ==
    IF c = "." THEN 46
    ELSE IF c \in Decimal THEN 47 + IndexOf(DigitChars, c)
    ELSE IF IndexOf(UpperCase, c) # 0 THEN 64 + IndexOf(UpperCase, c)
    ELSE IF IndexOf(LowerCase, c) # 0 THEN 96 + IndexOf(LowerCase, c)
    ELSE IF c = SuperscriptTwo THEN 178
    ELSE 0

(* re.split(r'(\d+)', text): text, digits, text, ..., text *)
RECURSIVE re_split_digits(_)
re_split_digits(text) ==
    IF \E i \in 1..Len(text) : text[i] \in Decimal
    THEN LET i == CHOOSE i \in 1..Len(text) :
                     text[i] \in Decimal /\ \A k \in 1..(i - 1) : text[k] \notin Decimal
             j == CHOOSE j \in i..Len(text) :
                     /\ \A k \in i..j : text[k] \in Decimal
                     /\ j = Len(text) \/ text[j + 1] \notin Decimal
         IN  <<SubSeq(text, 1, i - 1), SubSeq(text, i, j)>>
                 \o re_split_digits(SubSeq(text, j + 1, Len(text)))
    ELSE <<text>>

isdigit(c) == c # <<>> /\ \A i \in 1..Len(c) : c[i] \in Decimal \cup {SuperscriptTwo}

(* int(c) raises ValueError *)
int_raises(c) == \E i \in 1..Len(c) : c[i] \notin Decimal

RECURSIVE int(_)
int(c) ==
    IF c = <<>> THEN 0
    ELSE 10 * int(SubSeq(c, 1, Len(c) - 1)) + (IndexOf(DigitChars, c[Len(c)]) - 1)

natural_sort_key_raises(text) ==
    \E i \in 1..Len(re_split_digits(text)) :
        isdigit(re_split_digits(text)[i]) /\ int_raises(re_split_digits(text)[i])

natural_sort_key(text) ==
    [i \in 1..Len(re_split_digits(text)) |->
        LET c == re_split_digits(text)[i]
        IN  IF isdigit(c) THEN [int |-> int(c)] ELSE [str |-> lower(c)]]

(* a < b on strings: by code points, a proper prefix first *)
str_less(a, b) ==
    \E i \in 1..(Len(b)) :
        /\ \A k \in 1..(i - 1) : k <= Len(a) /\ a[k] = b[k]
        /\ i - 1 <= Len(a)
        /\ i > Len(a) \/ ord(a[i]) < ord(b[i])

(* x < y on key elements; comparing an int with a str raises TypeError *)
elem_mismatch(x, y) == DOMAIN x # DOMAIN y

elem_less(x, y) ==
    IF "int" \in DOMAIN x THEN x.int < y.int ELSE str_less(x.str, y.str)

(* the first index where two keys differ, 0 when one is a prefix of the other *)
first_difference(a, b) ==
    LET m == IF Len(a) < Len(b) THEN Len(a) ELSE Len(b)
    IN  IF \E i \in 1..m : a[i] # b[i]
        THEN CHOOSE i \in 1..m : a[i] # b[i] /\ \A k \in 1..(i - 1) : a[k] = b[k]
        ELSE 0

key_mismatch(a, b) ==
    first_difference(a, b) # 0
        /\ elem_mismatch(a[first_difference(a, b)], b[first_difference(a, b)])

key_less(a, b) ==
    IF first_difference(a, b) = 0 THEN Len(a) < Len(b)
    ELSE elem_less(a[first_difference(a, b)], b[first_difference(a, b)])

(* list.sort(key=...): the keys are computed first, the sort is stable *)
sort_by_key(files) ==
    LET n == Len(files)
        key == [i \in 1..n |-> natural_sort_key(files[i])]
        before(i, j) == key_less(key[i], key[j]) \/ (~key_less(key[j], key[i]) /\ i < j)
        rank(j) == Cardinality({i \in 1..n : i # j /\ before(i, j)}) + 1
    IN  IF \E i \in 1..n : natural_sort_key_raises(files[i])
        THEN [raised |-> "ValueError"]
        ELSE IF \E i, j \in 1..n : key_mismatch(key[i], key[j])
        THEN [raised |-> "TypeError"]
        ELSE [files |-> [r \in 1..n |-> files[CHOOSE j \in 1..n : rank(j) = r]]]

FileAlphabet == {"a", "B", "0", "1", "2", SuperscriptTwo}

BaseNames == UNION {[1..n -> FileAlphabet] : n \in 1..MaxBase}

ImgName(digits) == <<"i", "m", "g">> \o digits \o <<".", "p", "n", "g">>

ExampleFiles == <<ImgName(<<"1">>), ImgName(<<"1", "0">>), ImgName(<<"2">>)>>

(* the selections: distinct base names in any order *)
Selections ==
    {files \in UNION {[1..n -> BaseNames] : n \in 1..MaxSort} :
        \A i, j \in 1..Len(files) : i # j => files[i] # files[j]}
    \cup {ExampleFiles}

InitSort ==
    /\ unsorted_files \in Selections
    /\ sort_outcome = [files |-> <<>>]
    /\ npc = "input"
    /\ ParseIdle
    /\ StoreIdle(None)
    /\ ResolveIdle
    /\ ImportIdle
    /\ SanitizeIdle

SortFiles ==
    /\ npc = "input"
    /\ sort_outcome' = sort_by_key(unsorted_files)
    /\ npc' = "sorted"
    /\ UNCHANGED <<unsorted_files, parseVars, storeVars, resolveVars, importVars,
                   sanitizeVars>>

NextSort == SortFiles

SpecSort == InitSort /\ [][NextSort]_vars

----------------------------------------------------------------------------
(* Part 6: run_importer, one run from the menu entry to the summary.  The   *)
(* run is cut where it waits for the user or for the network, and in the    *)
(* loop where it runs QApplication.processEvents() (update_progress,        *)
(* add_detail): there the Cancel button of the progress dialog can be       *)
(* served.  Paths, file names and messages are strings.                     *)

MaxFiles == 2
MaxCards == 2

(* "sub in s" on strings *)
contains_str(s, sub) ==
    \E i \in 1..(Len(s) - Len(sub) + 1) : SubSeq(s, i, i + Len(sub) - 1) = sub

RECURSIVE lower_str(_)
lower_str(s) ==
    IF Len(s) = 0 THEN ""
    ELSE LET c == SubSeq(s, 1, 1)
             lc == IF \E j \in 1..26 : UpperCase[j] = c
                   THEN LowerCase[CHOOSE j \in 1..26 : UpperCase[j] = c]
                   ELSE c
         IN  lc \o lower_str(SubSeq(s, 2, Len(s)))

(* the characters of a string *)
chars(s) == [i \in 1..Len(s) |-> SubSeq(s, i, i)]

(* os.path.basename *)
basename(path) ==
    LET seps == {i \in 1..Len(path) : SubSeq(path, i, i) = "/"}
    IN  IF seps = {} THEN path
        ELSE SubSeq(path, (CHOOSE i \in seps : \A j \in seps : j <= i) + 1, Len(path))

(* os.path.splitext(filename)[1].lower() *)
ext_lower(filename) ==
    LET dots == {i \in 2..Len(filename) : SubSeq(filename, i, i) = "."}
    IN  IF dots = {} THEN ""
        ELSE lower_str(SubSeq(filename, CHOOSE i \in dots : \A j \in dots : j <= i,
                              Len(filename)))

SUPPORTED_IMAGE_FORMATS == {".png", ".jpg", ".jpeg", ".gif", ".bmp", ".webp"}

MAX_FILE_SIZE_MB == 20

(* the images of the run, in natural order, and two files that are refused *)
FileNames == [i \in 1..MaxFiles |-> "d/img" \o ToString(i) \o ".png"]

TextFile == "d/notes.txt"

BigFile == "d/big.png"

(* the files on disk with their size in MB *)
Disk ==
    [p \in {FileNames[i] : i \in 1..MaxFiles} \cup {TextFile, BigFile} |->
        IF p = BigFile THEN MAX_FILE_SIZE_MB + 5 ELSE 1]

validate_image_file(path) ==
    /\ path \in DOMAIN Disk
    /\ ~(Disk[path] > MAX_FILE_SIZE_MB)
    /\ ext_lower(path) \in SUPPORTED_IMAGE_FORMATS

(* lines 1526-1536: the test a chosen file passes to get into valid_files *)
is_valid_image(path) ==
    /\ ext_lower(basename(path)) \in SUPPORTED_IMAGE_FORMATS
    /\ validate_image_file(path)

(* lines 1549-1551: the paths sorted by the key of their base names *)
natural_sorted(files) ==
    LET names == [i \in 1..Len(files) |-> chars(basename(files[i]))]
        sorted == sort_by_key(names)
    IN  IF "raised" \in DOMAIN sorted THEN sorted
        ELSE [files |-> [i \in 1..Len(files) |->
                            files[CHOOSE j \in 1..Len(files) : names[j] = sorted.files[i]]]]

Reverse(seq) == [i \in 1..Len(seq) |-> seq[Len(seq) + 1 - i]]

(* what the file dialog can return: nothing, refused files only, images in *)
(* reverse order, alone or among refused files                               *)
FileSelections ==
    {<<>>, <<TextFile>>, <<BigFile>>}
    \cup {Reverse(SubSeq(FileNames, 1, n)) : n \in 1..MaxFiles}
    \cup {<<TextFile>> \o Reverse(SubSeq(FileNames, 1, n)) \o <<BigFile>> : n \in 1..MaxFiles}

(* list_generate_models: the request failed, or the models it listed *)
ModelListings ==
    {[ok |-> FALSE, models |-> <<>>],
     [ok |-> TRUE, models |-> <<"gemini-exp", "gemini-2.0-flash">>]}

ModelCandidates ==
    <<"gemini-2.5-flash-preview-05-20", "gemini-2.5-pro-preview-06-05", "gemini-2.0-flash">>

choose_model_from_list(listing, preferred_model) ==
    LET listed == {i \in 1..Len(ModelCandidates) :
                       IndexOf(listing.models, ModelCandidates[i]) # 0}
    IN  IF ~listing.ok THEN [ok |-> FALSE, model |-> ""]
        ELSE IF preferred_model # "" /\ IndexOf(listing.models, preferred_model) # 0
        THEN [ok |-> TRUE, model |-> preferred_model]
        ELSE IF listed # {}
        THEN [ok |-> TRUE, model |-> ModelCandidates[CHOOSE i \in listed : \A j \in listed : i <= j]]
        ELSE [ok |-> TRUE, model |-> listing.models[1]]

(* get_gemini_response: what the request gave, turned into (success, text or *)
(* message)                                                                 *)
get_gemini_response(reply) ==
    CASE reply.kind = "no_candidates" ->
             [success |-> FALSE, text |-> <<>>, message |-> "No response candidates from API"]
      [] reply.kind = "safety" ->
             [success |-> FALSE, text |-> <<>>, message |-> "Content filtered by safety settings"]
      [] reply.kind = "malformed" ->
             [success |-> FALSE, text |-> <<>>, message |-> "Invalid response structure from API"]
      [] reply.kind = "text" ->
             IF reply.text = <<>>
             THEN [success |-> FALSE, text |-> <<>>, message |-> "Empty response from API"]
             ELSE [success |-> TRUE, text |-> reply.text, message |-> ""]
      [] reply.kind = "nontext" ->
             [success |-> TRUE, text |-> <<>>, message |-> ""]
      [] reply.kind = "http" ->
             [success |-> FALSE, text |-> <<>>,
              message |->
                  CASE reply.code = 400 -> "Bad request (400): " \o reply.body
                    [] reply.code = 403 -> "API key invalid or unauthorized (403)"
                    [] reply.code = 429 -> "Rate limit exceeded (429). Please wait and try again."
                    [] reply.code = 500 -> "Gemini API server error (500). Please try again."
                    [] OTHER -> "HTTP Error " \o ToString(reply.code) \o ": " \o reply.body]
      [] reply.kind = "urlerror" ->
             [success |-> FALSE, text |-> <<>>, message |-> "Network error: " \o reply.reason]

(* parse_response starts with response_text.strip(): a text part that is a *)
(* JSON number or object, not a string, raises AttributeError               *)
parse_raises(reply) == reply.kind = "nontext"

(* line 1655: the failures that stop the run *)
critical(message) ==
    contains_str(message, "403") \/ contains_str(lower_str(message), "invalid")

(* lines every parser accepts, the even ones without a subtopic, and a text *)
(* without cards                                                            *)
CardLine == <<"s", "|", "{", "{", "c", "|", "a", "|", "b", "|", "e">>

ReplyText(k) ==
    IF k = 0 THEN <<"n", "o">>
    ELSE JoinWith([i \in 1..k |-> IF i % 2 = 0 THEN Tail(CardLine) ELSE CardLine], "\n")

(* what a request to the AI can give *)
GeminiReplies ==
    {[kind |-> "text", text |-> ReplyText(k)] : k \in 0..MaxCards}
    \cup {[kind |-> "text", text |-> <<>>], [kind |-> "nontext"], [kind |-> "malformed"]}
    \cup {[kind |-> "http", code |-> c, body |-> ""] : c \in {403, 429}}
    \cup {[kind |-> "urlerror", reason |-> "timed out"]}

(* mw.col.models.get at the time of the run: the note types the dialog *)
(* lists and one that has a single field                                *)
RunNoteTypes == NoteTypes \o << [id |-> 3, flds |-> <<N_Front>>] >>

models_get(nt_id) ==
    IF \E i \in 1..Len(RunNoteTypes) : RunNoteTypes[i].id = nt_id
    THEN <<RunNoteTypes[CHOOSE i \in 1..Len(RunNoteTypes) : RunNoteTypes[i].id = nt_id]>>
    ELSE <<>>

(* a configuration as Save leaves it *)
RunConfig(api_key, nt_id, active, profiles) ==
    [api_key |-> api_key, note_type_id |-> nt_id, active_profile |-> active,
     profiles |-> profiles]

(* the Cloze profile with both slots mapped to the field Text *)
ClozeOneField ==
    DictPut(DEFAULT_PROFILES, "Cloze",
            Put(DEFAULT_PROFILES.at["Cloze"], "field_map",
                [text |-> N_Text, extra |-> N_Text]))

(* the configurations of a run: three that pass the checks, and one for *)
(* each check that fails                                                 *)
RunConfigs ==
    {RunConfig(ValidKey, 1, "MCQ", DEFAULT_PROFILES),
     RunConfig(ValidKey, 2, "Cloze", DEFAULT_PROFILES),
     RunConfig(ValidKey, 2, "Cloze", ClozeOneField),
     RunConfig(NoApiKey, 1, "MCQ", DEFAULT_PROFILES),
     RunConfig(ShortKey, 1, "MCQ", DEFAULT_PROFILES),
     RunConfig(ValidKey, 0, "MCQ", DEFAULT_PROFILES),
     RunConfig(ValidKey, 9, "MCQ", DEFAULT_PROFILES),
     RunConfig(ValidKey, 3, "MCQ", DEFAULT_PROFILES)}

(* what the user can type as the root deck *)
MedDeck == <<"M", "e", "d", "/">>

DeckInputs == {<<>>, MedDeck}

General == <<"G", "e", "n", "e", "r", "a", "l">>

(* the menu entry is chosen: CONFIG is what the settings left *)
InitImport ==
    /\ \E config \in RunConfigs :
           /\ stored = config
           /\ CONFIG = config
    /\ pc = "running"
    /\ dialog = "closed"
    /\ _profiles = NoDict
    /\ _active_profile_key = ""
    /\ profile_combo = NoCombo
    /\ nt_combo = 0
    /\ _field_mapping_widget = NoWidget
    /\ default_profiles = DEFAULT_PROFILES
    /\ CONFIG_dict = "json"
    /\ _profiles_dict = ""
    /\ ops = 0
    /\ last = <<"start", "">>
    /\ ParseIdle
    /\ ResolveIdle
    /\ ImportIdle
    /\ SanitizeIdle
    /\ SortIdle

(* what steps 1 to 7 set for the loop *)
runInputs == <<valid_files, root_deck, model_name, confirmed>>

(* what the loop, the cleanup and the summary set *)
loopVars == <<index, in_events, cancelled, prev_file_path, card_i, file_card_count,
              cards_created, files_processed, files_failed, counted, error_log,
              media_added, api_calls, notes, cancel_mark, import_complete, resets,
              result_msg>>

(* open_settings(): the dialog is built and shown *)
open_settings ==
    /\ OpenDialog
    /\ last' = <<"open", "">>
    /\ UNCHANGED <<appVars, ops>>

(* "return" before the loop, after a warning or a refusal *)
Returned(why, settings) ==
    /\ ipc' = "idle"
    /\ ended' = why
    /\ IF settings THEN open_settings ELSE UNCHANGED storeVars

(* lines 1450-1463: the credential *)
run_importer ==
    /\ ipc = "idle"
    /\ ended = ""
    /\ LET api_key == Get(CONFIG, "api_key", NoApiKey)
       IN  IF api_key.len = 0
           THEN Returned("API Key not configured.", TRUE)
           ELSE IF ~validate_api_key(api_key)
           THEN Returned("Invalid API key", TRUE)
           ELSE /\ ipc' = "config"
                /\ UNCHANGED <<ended, storeVars>>
    /\ UNCHANGED <<parseVars, resolveVars, sanitizeVars, sortVars, runInputs, loopVars>>

(* lines 1465-1497: the model, the active profile, the note type *)
ChooseModel(listing) ==
    /\ ipc = "config"
    /\ LET chosen == choose_model_from_list(
                         listing, Get(CONFIG, "model", "gemini-2.5-flash-preview-05-20"))
           profile == get_active_profile(CONFIG)
           nt_id == Get(CONFIG, "note_type_id", 0)
           anki_model == models_get(nt_id)
           go_on == /\ chosen.ok /\ chosen.model # ""
                    /\ nt_id # 0
                    /\ anki_model # <<>>
                    /\ ~(Len(anki_model[1].flds) < 2)
       IN  /\ IF ~chosen.ok \/ chosen.model = ""
              THEN Returned("Could not resolve a supported Gemini model", FALSE)
              ELSE IF nt_id = 0
              THEN Returned("Note Type not selected.", TRUE)
              ELSE IF anki_model = <<>>
              THEN Returned("Selected Note Type not found.", TRUE)
              ELSE IF Len(anki_model[1].flds) < 2
              THEN Returned("Note Type has too few fields.", FALSE)
              ELSE /\ ipc' = "deck"
                   /\ UNCHANGED <<ended, storeVars>>
           /\ model_name' = IF go_on THEN chosen.model ELSE model_name
           /\ profile_fmt' = IF go_on THEN Get(profile, "format", "mcq") ELSE profile_fmt
           /\ profile_field_map' =
                  IF go_on THEN Get(profile, "field_map", <<>>) ELSE profile_field_map
    /\ UNCHANGED <<parseVars, anki_field_names, f_field, rpc, sanitizeVars, sortVars,
                   valid_files, root_deck, confirmed, loopVars>>

(* lines 1499-1511: the root deck *)
AskDeck(text, ok) ==
    /\ ipc = "deck"
    /\ IF ~ok \/ text = <<>>
       THEN /\ Returned("no deck name", FALSE)
            /\ UNCHANGED root_deck
       ELSE /\ root_deck' = sanitize_deck_name(text)
            /\ ipc' = "files"
            /\ UNCHANGED <<ended, storeVars>>
    /\ UNCHANGED <<parseVars, resolveVars, sanitizeVars, sortVars, valid_files, model_name,
                   confirmed, loopVars>>

(* lines 1513-1551: the files chosen, checked and sorted *)
SelectFiles(file_paths) ==
    /\ ipc = "files"
    /\ LET valid == SelectSeq(file_paths, is_valid_image)
           sorted == natural_sorted(valid)
       IN  IF file_paths = <<>>
           THEN /\ Returned("no files", FALSE)
                /\ UNCHANGED valid_files
           ELSE IF valid = <<>>
           THEN /\ Returned("No valid images found.", FALSE)
                /\ UNCHANGED valid_files
           ELSE IF "raised" \in DOMAIN sorted
           THEN /\ Returned(sorted.raised, FALSE)
                /\ UNCHANGED valid_files
           ELSE /\ valid_files' = sorted.files
                /\ ipc' = "confirm"
                /\ UNCHANGED <<ended, storeVars>>
    /\ UNCHANGED <<parseVars, resolveVars, sanitizeVars, sortVars, root_deck, model_name,
                   confirmed, loopVars>>

Confirm_WithoutAsking(yes) ==
    /\ ipc = "confirm"
    /\ confirmed' = yes
    /\ anki_field_names' = models_get(CONFIG.note_type_id)[1].flds
    /\ f_field' = resolve_slots(profile_fmt, profile_field_map, anki_field_names')
    /\ rpc' = "resolved"
    /\ ipc' = "top"
    /\ in_events' = TRUE
    /\ UNCHANGED <<ended, storeVars>>
    /\ UNCHANGED <<parseVars, profile_fmt, profile_field_map, sanitizeVars, sortVars,
                   valid_files, root_deck, model_name, index, cancelled, prev_file_path,
                   card_i, file_card_count, cards_created, files_processed, files_failed,
                   counted, error_log, media_added, api_calls, notes, cancel_mark,
                   import_complete, resets, result_msg>>

(* lines 1553-1625: the confirmation, the slots resolved, the progress dialog *)
(* shown, the counters set                                                    *)
Confirm(yes) ==
    /\ ipc = "confirm"
    /\ confirmed' = yes
    /\ IF ~yes
       THEN /\ Returned("declined", FALSE)
            /\ UNCHANGED <<anki_field_names, f_field, rpc, in_events>>
       ELSE /\ anki_field_names' = models_get(CONFIG.note_type_id)[1].flds
            /\ f_field' = resolve_slots(profile_fmt, profile_field_map, anki_field_names')
            /\ rpc' = "resolved"
            /\ ipc' = "top"
            /\ in_events' = TRUE
            /\ UNCHANGED <<ended, storeVars>>
    /\ UNCHANGED <<parseVars, profile_fmt, profile_field_map, sanitizeVars, sortVars,
                   valid_files, root_deck, model_name, index, cancelled, prev_file_path,
                   card_i, file_card_count, cards_created, files_processed, files_failed,
                   counted, error_log, media_added, api_calls, notes, cancel_mark,
                   import_complete, resets, result_msg>>

file_path == valid_files[index + 1]

(* filename = os.path.basename(file_path) *)
filename == basename(file_path)

loopFixed == <<storeVars, resolveVars, sanitizeVars, sortVars, runInputs, fmt, ppc,
               ended, import_complete, resets, result_msg>>

(* "continue", or the end of the loop body: the next file *)
NextFile ==
    /\ index' = index + 1
    /\ ipc' = "top"

LoopTop_IgnoresCancel ==
    /\ ipc = "top"
    /\ IF index >= Len(valid_files)
       THEN ipc' = "done" /\ in_events' = FALSE
       ELSE ipc' = "media" /\ in_events' = TRUE
    /\ UNCHANGED <<loopFixed, response, cards, index, cancelled, prev_file_path, card_i,
                   file_card_count, cards_created, files_processed, files_failed, counted,
                   error_log, media_added, api_calls, notes, cancel_mark>>

(* lines 1627-1632: the cancel check, the end of the loop, update_progress *)
LoopTop ==
    /\ ipc = "top"
    /\ IF cancelled \/ index >= Len(valid_files)
       THEN ipc' = "done" /\ in_events' = FALSE
       ELSE ipc' = "media" /\ in_events' = TRUE
    /\ UNCHANGED <<loopFixed, response, cards, index, cancelled, prev_file_path, card_i,
                   file_card_count, cards_created, files_processed, files_failed, counted,
                   error_log, media_added, api_calls, notes, cancel_mark>>

(* lines 1634-1645: mw.col.media.add_file, which can raise *)
AddMedia(ok) ==
    /\ ipc = "media"
    /\ in_events' = TRUE
    /\ IF ok
       THEN /\ media_added' = Append(media_added, file_path)
            /\ ipc' = "api"
            /\ UNCHANGED <<index, error_log, files_failed, counted>>
       ELSE /\ error_log' = Append(error_log, <<filename, "Failed to add media: " \o filename>>)
            /\ files_failed' = files_failed + 1
            /\ counted' = Append(counted, <<file_path, "failed">>)
            /\ NextFile
            /\ UNCHANGED media_added
    /\ UNCHANGED <<loopFixed, response, cards, cancelled, prev_file_path, card_i,
                   file_card_count, cards_created, files_processed, api_calls, notes,
                   cancel_mark>>

(* lines 1646-1669: the call, the error branch, the parse, the empty result; *)
(* an exception of the parse leaves the loop for the handler of line 1714    *)
CallGemini(reply) ==
    /\ ipc = "api"
    /\ api_calls' = Append(api_calls, [current |-> file_path, context |-> prev_file_path,
                                     model |-> model_name, reply |-> reply])
    /\ LET got == get_gemini_response(reply)
           parsed == parse_response(got.text, profile_fmt)
       IN  IF ~got.success
           THEN /\ error_log' = Append(error_log, <<filename, "API Error: " \o got.message>>)
                /\ files_failed' = files_failed + 1
                /\ counted' = Append(counted, <<file_path, "failed">>)
                /\ in_events' = TRUE
                /\ IF critical(got.message)
                   THEN ipc' = "done" /\ index' = index
                   ELSE NextFile
                /\ UNCHANGED <<response, cards, card_i, file_card_count>>
           ELSE IF parse_raises(reply)
           THEN /\ ipc' = "except"
                /\ in_events' = TRUE
                /\ UNCHANGED <<response, cards, card_i, file_card_count, index, error_log,
                               files_failed, counted>>
           ELSE /\ response' = got.text
                /\ cards' = parsed
                /\ IF parsed = <<>>
                   THEN /\ error_log' = Append(error_log,
                                               <<filename, "No valid cards found in response">>)
                        /\ files_failed' = files_failed + 1
                        /\ counted' = Append(counted, <<file_path, "failed">>)
                        /\ in_events' = TRUE
                        /\ NextFile
                        /\ UNCHANGED <<card_i, file_card_count>>
                   ELSE /\ ipc' = "notes"
                        /\ in_events' = FALSE
                        /\ card_i' = 0
                        /\ file_card_count' = 0
                        /\ UNCHANGED <<index, error_log, files_failed, counted>>
    /\ UNCHANGED <<loopFixed, cancelled, prev_file_path, cards_created, files_processed,
                   media_added, notes, cancel_mark>>

(* img_tag: one piece of text that holds the name of the file in the media *)
img_tag(anki_filename) == <<"<br><br><img src='" \o anki_filename \o "'>">>

(* lines 1684-1697: the assignments note[f_...] = ..., slot after slot *)
RECURSIVE assign_slots(_, _, _, _, _)
assign_slots(note, slots, f, card_data, tag) ==
    IF slots = <<>> THEN note
    ELSE LET slot == Head(slots)
             content == Get(card_data, slot, <<>>)
                            \o (IF slot = SLOT_EXTRA THEN tag ELSE <<>>)
         IN  assign_slots(IF f[slot] # <<>>
                          THEN [note EXCEPT ![f[slot][1]] = content]
                          ELSE note,
                          Tail(slots), f, card_data, tag)

(* lines 1674-1697: the note built for one Card Record *)
new_note(card_data) ==
    LET subtopic == IF Get(card_data, "subtopic", <<>>) # <<>>
                    THEN card_data.subtopic ELSE General
        blank == [n \in {anki_field_names[i] : i \in 1..Len(anki_field_names)} |-> <<>>]
    IN  [file |-> file_path,
         card |-> card_data,
         deck |-> root_deck \o <<":", ":">> \o sanitize_deck_name(subtopic),
         fields |-> assign_slots(blank, SlotOrder(profile_fmt), f_field, card_data,
                                 img_tag(filename))]

CreateNote_StopsAtFailure(ok) ==
    /\ ipc = "notes"
    /\ card_i < Len(cards)
    /\ IF ok
       THEN /\ notes' = Append(notes, new_note(cards[card_i + 1]))
            /\ card_i' = card_i + 1
            /\ file_card_count' = file_card_count + 1
            /\ cards_created' = cards_created + 1
            /\ in_events' = FALSE
            /\ UNCHANGED error_log
       ELSE /\ error_log' = Append(error_log, <<filename, "Card creation error: ">>)
            /\ card_i' = Len(cards)
            /\ in_events' = TRUE
            /\ UNCHANGED <<notes, file_card_count, cards_created>>
    /\ UNCHANGED <<loopFixed, response, cards, index, ipc, cancelled, prev_file_path,
                   files_processed, files_failed, counted, media_added, api_calls,
                   cancel_mark>>

(* lines 1672-1706: one card of the file; building or adding the note can raise *)
CreateNote(ok) ==
    /\ ipc = "notes"
    /\ card_i < Len(cards)
    /\ card_i' = card_i + 1
    /\ IF ok
       THEN /\ notes' = Append(notes, new_note(cards[card_i + 1]))
            /\ file_card_count' = file_card_count + 1
            /\ cards_created' = cards_created + 1
            /\ in_events' = FALSE
            /\ UNCHANGED error_log
       ELSE /\ error_log' = Append(error_log, <<filename, "Card creation error: ">>)
            /\ in_events' = TRUE
            /\ UNCHANGED <<notes, file_card_count, cards_created>>
    /\ UNCHANGED <<loopFixed, response, cards, index, ipc, cancelled, prev_file_path,
                   files_processed, files_failed, counted, media_added, api_calls,
                   cancel_mark>>

FinishFile_CountsEveryFile ==
    /\ ipc = "notes"
    /\ card_i = Len(cards)
    /\ files_processed' = files_processed + 1
    /\ counted' = Append(counted, <<file_path, "processed">>)
    /\ in_events' = TRUE
    /\ prev_file_path' = <<file_path>>
    /\ NextFile
    /\ UNCHANGED <<loopFixed, response, cards, cancelled, card_i, file_card_count,
                   cards_created, files_failed, error_log, media_added, api_calls, notes,
                   cancel_mark>>

(* lines 1708-1712: the end of the loop body *)
FinishFile ==
    /\ ipc = "notes"
    /\ card_i = Len(cards)
    /\ IF file_card_count > 0
       THEN /\ files_processed' = files_processed + 1
            /\ counted' = Append(counted, <<file_path, "processed">>)
            /\ in_events' = TRUE
       ELSE UNCHANGED <<files_processed, counted, in_events>>
    /\ prev_file_path' = <<file_path>>
    /\ NextFile
    /\ UNCHANGED <<loopFixed, response, cards, cancelled, card_i, file_card_count,
                   cards_created, files_failed, error_log, media_added, api_calls, notes,
                   cancel_mark>>

(* cancel_import / closeEvent, the user confirming, served by processEvents *)
CancelImport ==
    /\ ipc \in {"top", "media", "api", "notes"}
    /\ in_events
    /\ ~cancelled
    /\ cancelled' = TRUE
    /\ cancel_mark' = <<index, ipc, Len(notes)>>
    /\ UNCHANGED <<loopFixed, response, cards, index, ipc, in_events, prev_file_path,
                   card_i, file_card_count, cards_created, files_processed, files_failed,
                   counted, error_log, media_added, api_calls, notes>>

afterLoop == <<parseVars, storeVars, resolveVars, sanitizeVars, sortVars, runInputs, index,
               in_events, cancelled, prev_file_path, card_i, file_card_count,
               cards_created, files_processed, files_failed, counted, error_log,
               media_added, api_calls, notes, cancel_mark>>

ExceptHandler_Returns ==
    /\ ipc = "except"
    /\ ipc' = "results"
    /\ UNCHANGED <<afterLoop, ended, import_complete, resets, result_msg>>

(* lines 1714-1716: the handler of an exception that left the loop; the *)
(* finally clause comes next                                            *)
ExceptHandler ==
    /\ ipc = "except"
    /\ ipc' = "done"
    /\ UNCHANGED <<afterLoop, ended, import_complete, resets, result_msg>>

(* lines 1718-1720: finally: progress_dlg.mark_complete() and mw.reset() *)
Finally ==
    /\ ipc = "done"
    /\ import_complete' = TRUE
    /\ resets' = resets + 1
    /\ ipc' = "results"
    /\ UNCHANGED <<afterLoop, ended, result_msg>>

(* lines 1722-1732: the summary *)
Results ==
    /\ ipc = "results"
    /\ result_msg' = [files_processed |-> files_processed,
                      files |-> Len(valid_files),
                      cards_created |-> cards_created,
                      files_failed |-> IF files_failed > 0 THEN <<files_failed>> ELSE <<>>]
    /\ ended' = "complete"
    /\ ipc' = "idle"
    /\ UNCHANGED <<afterLoop, import_complete, resets>>

NextImport ==
    \/ run_importer
    \/ \E listing \in ModelListings : ChooseModel(listing)
    \/ \E text \in DeckInputs, ok \in BOOLEAN : AskDeck(text, ok)
    \/ \E file_paths \in FileSelections : SelectFiles(file_paths)
    \/ \E yes \in BOOLEAN : Confirm(yes)
    \/ LoopTop
    \/ \E ok \in BOOLEAN : AddMedia(ok)
    \/ \E reply \in GeminiReplies : CallGemini(reply)
    \/ \E ok \in BOOLEAN : CreateNote(ok)
    \/ FinishFile
    \/ CancelImport
    \/ ExceptHandler
    \/ Finally
    \/ Results

SpecImport == InitImport /\ [][NextImport]_vars

----------------------------------------------------------------------------
(* Claims about the parsers                                                *)

ResponseLines == split(response, "\n")

TrimmedColumns(raw) ==
    LET cols == split(strip(raw), "|")
    IN  [i \in 1..Len(cols) |-> strip(cols[i])]

WellFormedMcq(raw) ==
    LET cols == TrimmedColumns(raw)
    IN  /\ strip(raw) # <<>>
        /\ ~startswith(strip(raw), "#")
        /\ Len(cols) >= 5
        /\ cols[2] # <<>>
        /\ cols[3] # <<>>

McqRecord(raw) ==
    LET cols == TrimmedColumns(raw)
    IN  [subtopic |-> cols[1], question |-> cols[2], choices |-> cols[3],
         answer |-> cols[4], extra |-> cols[5]]

RECURSIVE McqRecordsInOrder(_)
McqRecordsInOrder(lines) ==
    IF lines = <<>> THEN <<>>
    ELSE (IF WellFormedMcq(Head(lines)) THEN <<McqRecord(Head(lines))>> ELSE <<>>)
         \o McqRecordsInOrder(Tail(lines))

\* C1: parse_mcq_response returns, in line order, exactly one record for each
\* line of the response that is non-empty after trimming, does not start with
\* '#', has at least 5 columns and a non-empty trimmed question and choices;
\* the record's subtopic, question, choices, answer and extra are the trimmed
\* columns 0..4 of that line.
C1_McqRecordsAreTrimmedColumns ==
    (ppc = "parsed" /\ fmt = "mcq") => cards = McqRecordsInOrder(ResponseLines)

C1_Witness ==
    /\ ppc = "parsed" /\ fmt = "mcq"
    /\ Len(cards) = 2
    /\ \E i \in 1..Len(ResponseLines) :
           /\ WellFormedMcq(ResponseLines[i])
           /\ Len(TrimmedColumns(ResponseLines[i])) > 5
           /\ ResponseLines[i] # strip(ResponseLines[i])

(* the minimum column count each parser passes to _split_pipe_line *)
MinColumns(f) ==
    CASE f = "mcq" -> 5
      [] f = "cloze" -> 3
      [] f = "basic" -> 4

ShortLine(f, raw) == NCols(raw) < MinColumns(f)

Accepted(f, raw) ==
    LET cols == TrimmedColumns(raw)
    IN  /\ strip(raw) # <<>>
        /\ ~startswith(strip(raw), "#")
        /\ ~ShortLine(f, raw)
        /\ cols[2] # <<>>
        /\ f \in {"mcq", "basic"} => cols[3] # <<>>
        /\ f = "cloze" => contains(cols[2], ClozeMarker)

RECURSIVE WithoutShortLines(_, _)
WithoutShortLines(f, lines) ==
    IF lines = <<>> THEN <<>>
    ELSE (IF ShortLine(f, Head(lines)) THEN <<>> ELSE <<Head(lines)>>)
         \o WithoutShortLines(f, Tail(lines))

\* C2: under each of the three formats a line with fewer columns than the
\* format's minimum contributes no record and does not disturb the other
\* lines: the number of records is the number of accepted lines, and the
\* records are those of the same text with the short lines taken out.
C2_ShortLinesContributeNothing ==
    (ppc = "parsed" /\ fmt \in {"mcq", "cloze", "basic"}) =>
        /\ Len(cards) =
               Cardinality({i \in 1..Len(ResponseLines) : Accepted(fmt, ResponseLines[i])})
        /\ cards = parse_response(
                       JoinWith(WithoutShortLines(fmt, ResponseLines), "\n"), fmt)

C2_Witness ==
    /\ ppc = "parsed" /\ fmt = "mcq"
    /\ Len(ResponseLines) = 2
    /\ NCols(ResponseLines[1]) = 2
    /\ WellFormedMcq(ResponseLines[2])
    /\ Len(cards) = 1

\* C3: parse_cloze_response never returns a record whose text is empty or
\* lacks the substring '{{c', and it returns no more records than there are
\* lines whose text column holds '{{c'.
C3_ClozeRecordsHoldMarker ==
    (ppc = "parsed" /\ fmt = "cloze") =>
        /\ \A i \in 1..Len(cards) :
               cards[i].text # <<>> /\ contains(cards[i].text, ClozeMarker)
        /\ Len(cards) <=
               Cardinality({i \in 1..Len(ResponseLines) :
                   /\ NCols(ResponseLines[i]) >= 2
                   /\ contains(TrimmedColumns(ResponseLines[i])[2], ClozeMarker)})

C3_Witness ==
    /\ ppc = "parsed" /\ fmt = "cloze"
    /\ Len(cards) = 1
    /\ \E i \in 1..Len(ResponseLines) :
           /\ NCols(ResponseLines[i]) >= 3
           /\ TrimmedColumns(ResponseLines[i])[2] # <<>>
           /\ TrimmedColumns(ResponseLines[i])[3] # <<>>
           /\ ~contains(TrimmedColumns(ResponseLines[i])[2], ClozeMarker)

\* C4: a fill-in-blank line with exactly 2 columns whose text holds '{{c',
\* and a front-back line with exactly 3 columns with a non-empty front and
\* back, each give one record whose extra is the empty string.
C4_ExtraColumnIsOptional ==
    (ppc = "parsed" /\ Len(ResponseLines) = 1) =>
        LET cols == TrimmedColumns(ResponseLines[1])
        IN  /\ (/\ fmt = "cloze"
                /\ Len(cols) = 2
                /\ ~startswith(strip(response), "#")
                /\ contains(cols[2], ClozeMarker))
               => (Len(cards) = 1 /\ cards[1].extra = <<>>)
            /\ (/\ fmt = "basic"
                /\ Len(cols) = 3
                /\ ~startswith(strip(response), "#")
                /\ cols[2] # <<>>
                /\ cols[3] # <<>>)
               => (Len(cards) = 1 /\ cards[1].extra = <<>>)

\* C5: parse_response gives the result of the cloze parser for 'cloze', of
\* the basic parser for 'basic', and of the MCQ parser for 'mcq' and for
\* every other tag.
C5_DispatchFallsBackToMcq ==
    ppc = "parsed" =>
        cards = CASE fmt = "cloze" -> parse_cloze_response(response)
                  [] fmt = "basic" -> parse_basic_response(response)
                  [] OTHER -> parse_mcq_response(response)

C5_Witness ==
    /\ ppc = "parsed"
    /\ fmt \notin {"mcq", "cloze", "basic"}
    /\ cards # <<>>
    /\ parse_cloze_response(response) # cards

----------------------------------------------------------------------------
(* Claims about the profile store                                          *)

BuiltIn == Keys(DEFAULT_PROFILES)

ProfilesOf(config) ==
    IF config = None \/ "profiles" \notin DOMAIN config THEN NoDict ELSE config.profiles

\* C6: an attempt to delete a built-in profile (MCQ, Cloze, Basic) in the
\* settings dialog changes nothing: the working profiles, the active key, the
\* configuration in memory and the one on disk are the same after it.
C6_BuiltInDeleteChangesNothing ==
    [][(last'[1] = "_delete_profile" /\ CurrentKey \in BuiltIn)
         => /\ _profiles' = _profiles
            /\ _active_profile_key' = _active_profile_key
            /\ profile_combo' = profile_combo
            /\ CONFIG' = CONFIG
            /\ stored' = stored]_vars

C6_Witness ==
    /\ dialog = "open"
    /\ last = <<"_delete_profile", "rejected">>
    /\ CurrentKey \in BuiltIn
    /\ Keys(_profiles) \ BuiltIn # {}

\* C7: deleting a custom profile (the user confirming) removes its key and
\* leaves every other profile as it was; if the deleted profile was the active
\* one the active key becomes a built-in key that is in the profile set, else
\* the active key is unchanged.
C7_CustomDeleteFallsBackToExistingBuiltIn ==
    [][(last'[1] = "_delete_profile" /\ last'[2] # "declined" /\ CurrentKey \notin BuiltIn)
         => /\ Keys(_profiles') = Keys(_profiles) \ {CurrentKey}
            /\ \A k \in Keys(_profiles') : _profiles'.at[k] = _profiles.at[k]
            /\ IF _active_profile_key = CurrentKey
               THEN /\ _active_profile_key' \in BuiltIn
                    /\ _active_profile_key' \in Keys(_profiles')
               ELSE _active_profile_key' = _active_profile_key]_vars

ActiveKeyOf(config) == Get(config, "active_profile", "MCQ")

\* C8: whenever the configuration is loaded its active key names a profile of
\* its profile set, whenever the dialog is open its active key names a profile
\* of the working set, and a stale stored key makes the importer use the first
\* profile of the set.
C8_ActiveKeyAlwaysResolves ==
    /\ pc = "running" =>
           /\ ActiveKeyOf(CONFIG) \in Keys(Get(CONFIG, "profiles", DEFAULT_PROFILES))
           /\ ActiveKeyOf(CONFIG) \notin Keys(Get(CONFIG, "profiles", DEFAULT_PROFILES))
                  => get_active_profile(CONFIG) =
                         CONFIG.profiles.at[CONFIG.profiles.order[1]]
    /\ dialog = "open" => _active_profile_key \in Keys(_profiles)

\* C9: after every configuration load each built-in key is in the profile set
\* with a format, a field_map and a non-blank prompt, and the custom profiles
\* are those of the stored configuration.
C9_LoadRestoresBuiltIns ==
    last[1] = "load" =>
        /\ \A k \in BuiltIn :
               /\ k \in Keys(ProfilesOf(CONFIG))
               /\ {"format", "field_map", "prompt"} \subseteq DOMAIN CONFIG.profiles.at[k]
               /\ CONFIG.profiles.at[k].prompt # ""
        /\ \A k \in Keys(ProfilesOf(stored)) \ BuiltIn :
               /\ k \in Keys(ProfilesOf(CONFIG))
               /\ CONFIG.profiles.at[k] = stored.profiles.at[k]

\* C10: a configuration load is idempotent and keeps prompts: loading again
\* what a load left on disk gives the configuration that load gave, and every
\* profile prompt that was stored and non-blank is the same after the load.
C10_LoadIsIdempotentAndKeepsPrompts ==
    [][last'[1] = "load"
         => /\ load_config(stored') = CONFIG'
            /\ load_config(CONFIG') = CONFIG'
            /\ \A k \in Keys(ProfilesOf(stored)) :
                   ("prompt" \in DOMAIN stored.profiles.at[k]
                        /\ stored.profiles.at[k].prompt # "")
                   => /\ k \in Keys(ProfilesOf(CONFIG'))
                      /\ "prompt" \in DOMAIN CONFIG'.profiles.at[k]
                      /\ CONFIG'.profiles.at[k].prompt = stored.profiles.at[k].prompt]_vars

C10_Witness ==
    /\ last = <<"load", "kept">>
    /\ ops >= 2
    /\ \E k \in BuiltIn \cap Keys(ProfilesOf(CONFIG)) :
           /\ "prompt" \in DOMAIN CONFIG.profiles.at[k]
           /\ CONFIG.profiles.at[k].prompt = "edited"
    /\ stored = CONFIG

SameField(a, b, f) ==
    /\ (f \in DOMAIN a) <=> (f \in DOMAIN b)
    /\ f \in DOMAIN a => a[f] = b[f]

CopyBaseName == Get(_profiles.at[CurrentKey], "display_name", CurrentKey) \o " (Copy)"

\* C11: duplicating a profile adds exactly one key that was not in the working
\* set: the display name plus " (Copy)" when that is free, else that name with
\* the first free number 1, 2, ... appended; every profile that was in the set
\* is unchanged and the copy has the format, prompt and field_map of its source.
C11_DuplicateAddsOneFreshCopy ==
    [][last'[1] = "_duplicate_profile"
         => /\ Len(_profiles'.order) = Len(_profiles.order) + 1
            /\ Keys(_profiles) \subseteq Keys(_profiles')
            /\ Cardinality(Keys(_profiles') \ Keys(_profiles)) = 1
            /\ \A k \in Keys(_profiles) : _profiles'.at[k] = _profiles.at[k]
            /\ \A new \in Keys(_profiles') \ Keys(_profiles) :
                   /\ IF CopyBaseName \notin Keys(_profiles)
                      THEN new = CopyBaseName
                      ELSE \E n \in 1..(MaxProfiles + 1) :
                               /\ new = CopyBaseName \o " " \o ToString(n)
                               /\ \A m \in 1..(n - 1) :
                                      (CopyBaseName \o " " \o ToString(m)) \in Keys(_profiles)
                   /\ \A f \in {"format", "prompt", "field_map"} :
                          SameField(_profiles'.at[new], _profiles.at[CurrentKey], f)]_vars

C11_Witness ==
    /\ dialog = "open"
    /\ last[1] = "_duplicate_profile"
    /\ \E k \in Keys(_profiles) :
           /\ "display_name" \in DOMAIN _profiles.at[k]
           /\ k = _profiles.at[k].display_name \o " 1"
           /\ _profiles.at[k].display_name \in Keys(_profiles)

\* C12: reset-prompt on a custom profile is rejected and changes nothing; on a
\* built-in profile, once confirmed, it changes that profile's prompt to the
\* factory prompt and nothing else.
C12_ResetPromptOnlyForBuiltIns ==
    [][last'[1] = "_reset_prompt"
         => IF CurrentKey \in BuiltIn /\ last'[2] = "reset"
            THEN /\ _profiles'.order = _profiles.order
                 /\ \A k \in Keys(_profiles) \ {CurrentKey} :
                        _profiles'.at[k] = _profiles.at[k]
                 /\ _profiles'.at[CurrentKey] =
                        Put(_profiles.at[CurrentKey], "prompt",
                            DEFAULT_PROFILES.at[CurrentKey].prompt)
                 /\ UNCHANGED <<stored, CONFIG, pc, dialog, _active_profile_key,
                                profile_combo, nt_combo, _field_mapping_widget>>
            ELSE /\ CurrentKey \notin BuiltIn => last'[2] = "rejected"
                 /\ UNCHANGED <<stored, CONFIG, pc, dialogVars>>]_vars

C12_Witness ==
    /\ dialog = "open"
    /\ last = <<"_reset_prompt", "rejected">>
    /\ CurrentKey \notin BuiltIn
    /\ _profiles.at[CurrentKey].prompt \notin {MCQ_PROMPT, CLOZE_PROMPT, BASIC_PROMPT}

(* the slots of a format, as the specification lists them *)
SlotSet(f) ==
    CASE f = "mcq" -> {"question", "choices", "answer", "extra"}
      [] f = "cloze" -> {"text", "extra"}
      [] f = "basic" -> {"question", "answer", "extra"}
      [] OTHER -> {}

FieldMapWithinSlots(profiles) ==
    \A k \in Keys(profiles) :
        DOMAIN Get(profiles.at[k], "field_map", <<>>)
            \subseteq SlotSet(Get(profiles.at[k], "format", "mcq"))

\* C13: in every state the field_map keys of every profile, in the stored
\* configuration, in the loaded configuration and in the dialog's working
\* set, are slots of that profile's format.
C13_FieldMapKeysAreSlotsOfFormat ==
    /\ FieldMapWithinSlots(ProfilesOf(stored))
    /\ FieldMapWithinSlots(ProfilesOf(CONFIG))
    /\ FieldMapWithinSlots(_profiles)

C13_Witness ==
    /\ last = <<"save_config", "saved">>
    /\ \E k \in Keys(ProfilesOf(stored)) \ BuiltIn :
           /\ Get(stored.profiles.at[k], "format", "") = "mcq"
           /\ DOMAIN Get(stored.profiles.at[k], "field_map", <<>>) = SlotSet("mcq")
           /\ stored.profiles.at[k].field_map # DEFAULT_PROFILES.at["MCQ"].field_map

----------------------------------------------------------------------------
(* Claims about the slot resolution                                        *)

ExactlyMapped(slot) ==
    /\ slot \in DOMAIN profile_field_map
    /\ profile_field_map[slot] # <<>>
    /\ IndexOf(anki_field_names, profile_field_map[slot]) # 0

\* C14: after the resolution every slot of the format whose field_map entry is
\* set and is a field name of the note type is resolved to exactly that field,
\* wherever the field stands and whatever the other slots were resolved to.
C14_ExactMappingWins ==
    rpc = "resolved" =>
        /\ DOMAIN f_field = SlotKeys(profile_fmt)
        /\ \A slot \in SlotKeys(profile_fmt) :
               ExactlyMapped(slot) => f_field[slot] = <<profile_field_map[slot]>>

C14_Witness ==
    /\ rpc = "resolved"
    /\ profile_fmt = "cloze"
    /\ ExactlyMapped(SLOT_TEXT)
    /\ ~ExactlyMapped(SLOT_EXTRA)
    /\ anki_field_names[1] # profile_field_map[SLOT_TEXT]
    /\ f_field[SLOT_TEXT] = <<profile_field_map[SLOT_TEXT]>>
    /\ f_field[SLOT_EXTRA] = f_field[SLOT_TEXT]

(* the keywords of a slot: the tokens of its label longer than two characters *)
Tokens(label) ==
    LET spaced == [i \in 1..Len(label) |->
                      IF label[i] \in {"/", "(", ")"} THEN " " ELSE lower(label)[i]]
        pieces == split(spaced, " ")
    IN  {pieces[i] : i \in {j \in 1..Len(pieces) : Len(pieces[j]) > 2}}

Keywords(f, slot) ==
    Tokens(SLOT_META(f)[CHOOSE i \in 1..Len(SLOT_META(f)) : SLOT_META(f)[i].slot = slot].label)

(* a field no slot before position j took, whose name holds a keyword of slot j *)
UnclaimedMatch(j) ==
    \E n \in 1..Len(anki_field_names) :
        /\ \A i \in 1..(j - 1) : f_field[SlotOrder(profile_fmt)[i]] # <<anki_field_names[n]>>
        /\ \E kw \in Keywords(profile_fmt, SlotOrder(profile_fmt)[j]) :
               contains(lower(anki_field_names[n]), kw)

\* C15: after one resolution pass every slot of the format has one value, and
\* no two slots are resolved to the same field while the note type still has
\* an unclaimed field whose name matches a keyword of the later slot.
C15_NoSharedFieldWhenUnclaimedMatches ==
    rpc = "resolved" =>
        /\ DOMAIN f_field = SlotKeys(profile_fmt)
        /\ \A j \in 1..Len(SlotOrder(profile_fmt)) : \A i \in 1..(j - 1) :
               (/\ f_field[SlotOrder(profile_fmt)[j]] # <<>>
                /\ f_field[SlotOrder(profile_fmt)[i]] = f_field[SlotOrder(profile_fmt)[j]])
               => ~UnclaimedMatch(j)

----------------------------------------------------------------------------
(* Claims about the import loop                                            *)

(* the position of a file in valid_files, from 1 *)
Position(file) == CHOOSE i \in 1..Len(valid_files) : valid_files[i] = file

\* C18: every call to the AI for the first file carries no context image, and
\* every call for a later file carries exactly the file just before it in the
\* sorted sequence, whatever happened to that file.
C18_ContextIsPrecedingFile ==
    \A k \in 1..Len(api_calls) :
        IF Position(api_calls[k].current) = 1
        THEN api_calls[k].context = <<>>
        ELSE api_calls[k].context = <<valid_files[Position(api_calls[k].current) - 1]>>

(* the call failed: get_gemini_response returned (False, message) *)
Failed(k) == ~get_gemini_response(api_calls[k].reply).success

(* the reply is an authorization or credential failure *)
AuthFailure(reply) == reply.kind = "http" /\ reply.code \in {401, 403}

(* the run stopped at the file of call k: no later file was taken up *)
AbortedAt(k) ==
    /\ k = Len(api_calls)
    /\ ipc \in {"done", "results", "idle"}
    /\ index = Position(api_calls[k].current) - 1

\* C19: every failed AI call is logged and counted as a failed file, and it
\* stops the run exactly when it is an authorization failure: after any other
\* failure the loop goes on to the next file.
C19_OnlyAuthFailureAborts ==
    \A k \in 1..Len(api_calls) :
        Failed(k) =>
            /\ \E e \in 1..Len(error_log) : error_log[e][1] = basename(api_calls[k].current)
            /\ files_failed >= 1
            /\ AbortedAt(k) <=> AuthFailure(api_calls[k].reply)

(* the last position a file may have been taken up at, given the cancel mark *)
LastStarted == IF cancel_mark[2] = "top" THEN cancel_mark[1] ELSE cancel_mark[1] + 1

NothingAfterCancel ==
    cancelled =>
        /\ index <= LastStarted
        /\ \A k \in 1..Len(media_added) : Position(media_added[k]) <= LastStarted
        /\ \A k \in 1..Len(api_calls) : Position(api_calls[k].current) <= LastStarted
        /\ \A k \in 1..Len(notes) : Position(notes[k].file) <= LastStarted

CancelStep ==
    /\ (cancelled /\ ipc = "top")
           => /\ ipc' = "done"
              /\ UNCHANGED <<index, media_added, api_calls, notes, cards_created>>
    /\ (cancelled /\ ipc \in {"media", "api", "notes"} /\ ipc' = "done")
           => error_log' # error_log
    /\ (cancelled /\ ipc = "notes" /\ card_i < Len(cards)) => card_i' = card_i + 1
    /\ Len(notes') >= Len(notes)
    /\ SubSeq(notes', 1, Len(notes)) = notes
    /\ cards_created' >= cards_created

\* C20: the cancel flag is read only at the top of the loop: with the flag set
\* the file in progress is carried on (only a critical AI failure ends it), at
\* the next top of the loop the run ends and no later file gets its media
\* registered, an AI call or a note; notes are never removed and the count of
\* created cards never decreases.
C20_CancelOnlyBetweenFiles ==
    []NothingAfterCancel /\ [][CancelStep]_vars

C20_Witness ==
    /\ cancelled
    /\ ipc = "done"
    /\ cancel_mark[2] = "api"
    /\ Len(notes) > cancel_mark[3]
    /\ index < Len(valid_files)

----------------------------------------------------------------------------
(* Claims about sanitize_deck_name                                         *)

CharsOf(s) == {s[i] : i \in 1..Len(s)}

(* no part of the name between "::" separators holds a character that stays *)
NothingSurvives(n) ==
    \A i \in 1..Len(split_on(n, <<":", ":">>)) :
        CharsOf(split_on(n, <<":", ":">>)[i]) \subseteq StrippedChars \cup Whitespace

\* C16 (as stated): the result of sanitize_deck_name is never empty, holds
\* none of the characters \ / : * ? " < > | and is "Imported" when nothing
\* survives the stripping.
C16_NoIllegalCharacterNorColon ==
    spc = "sanitized" =>
        /\ result # <<>>
        /\ CharsOf(result) \cap (StrippedChars \cup {":"}) = {}
        /\ NothingSurvives(name) => result = Imported

\* C16 (amended): the result of sanitize_deck_name is never empty, holds none
\* of the characters \ / * ? " < > | and is "Imported" when nothing survives
\* the stripping; otherwise it is made of characters of the name and keeps
\* every character that is not stripped, not white space and not a colon.
\* Colons can stay: the "::" between surviving parts, single colons in a part.
C16_NoStrippedCharacterNeverEmpty ==
    spc = "sanitized" =>
        /\ result # <<>>
        /\ CharsOf(result) \cap StrippedChars = {}
        /\ NothingSurvives(name) => result = Imported
        /\ ~NothingSurvives(name) =>
               /\ CharsOf(result) \subseteq CharsOf(name)
               /\ CharsOf(name) \ (StrippedChars \cup Whitespace \cup {":"})
                      \subseteq CharsOf(result)

C16_Witness ==
    /\ spc = "sanitized"
    /\ name = ExampleName
    /\ result = <<"A", "B", ":", ":", "C", "D">>

----------------------------------------------------------------------------
(* Claims about the natural sort                                           *)

(* the maximal runs of decimal digits and of other characters of a name *)
RECURSIVE Runs(_)
Runs(text) ==
    IF text = <<>> THEN <<>>
    ELSE LET d == text[1] \in Decimal
             j == CHOOSE j \in 1..Len(text) :
                      /\ \A k \in 1..j : (text[k] \in Decimal) = d
                      /\ j = Len(text) \/ (text[j + 1] \in Decimal) # d
         IN  <<SubSeq(text, 1, j)>> \o Runs(SubSeq(text, j + 1, Len(text)))

IsNumber(run) == run[1] \in Decimal

(* run x comes before run y, or they count as equal *)
RunLeq(x, y) ==
    IF IsNumber(x) /\ IsNumber(y) THEN int(x) <= int(y)
    ELSE IF IsNumber(x) # IsNumber(y) THEN IsNumber(x)
    ELSE lower(x) = lower(y) \/ str_less(lower(x), lower(y))

RunSame(x, y) ==
    IF IsNumber(x) /\ IsNumber(y) THEN int(x) = int(y)
    ELSE IsNumber(x) = IsNumber(y) /\ lower(x) = lower(y)

(* natural order: the first runs that are not the same decide, else the length *)
NaturalLeq(a, b) ==
    LET ra == Runs(a)
        rb == Runs(b)
        m == IF Len(ra) < Len(rb) THEN Len(ra) ELSE Len(rb)
    IN  IF \E i \in 1..m : ~RunSame(ra[i], rb[i])
        THEN LET i == CHOOSE i \in 1..m :
                          ~RunSame(ra[i], rb[i]) /\ \A k \in 1..(i - 1) : RunSame(ra[k], rb[k])
             IN  RunLeq(ra[i], rb[i])
        ELSE Len(ra) <= Len(rb)

\* C17: the sort always gives a list: the selected files in natural order of
\* their base names, digit runs compared as integers and other runs without
\* regard to case; img1.png, img10.png, img2.png come out as img1.png,
\* img2.png, img10.png.
C17_NaturalOrderForEverySelection ==
    npc = "sorted" =>
        /\ "files" \in DOMAIN sort_outcome
        /\ Len(sort_outcome.files) = Len(unsorted_files)
        /\ {sort_outcome.files[i] : i \in 1..Len(sort_outcome.files)}
               = {unsorted_files[i] : i \in 1..Len(unsorted_files)}
        /\ \A i \in 1..(Len(sort_outcome.files) - 1) :
               NaturalLeq(sort_outcome.files[i], sort_outcome.files[i + 1])
        /\ unsorted_files = ExampleFiles =>
               sort_outcome.files
                   = <<ImgName(<<"1">>), ImgName(<<"2">>), ImgName(<<"1", "0">>)>>

----------------------------------------------------------------------------
(* Claims about the hierarchy segments of a sanitized deck name            *)

(* the segments of a deck path: the pieces between "::" separators *)
Segments(deck) == split_on(deck, <<":", ":">>)

\* C27: for every input, the result of sanitize_deck_name has no empty
\* hierarchy segment: splitting the result on "::" gives only non-empty
\* segments, also when the removal of a stripped character brings two colons
\* together.
C27_NoEmptySegment ==
    spc = "sanitized" =>
        \A i \in 1..Len(Segments(result)) : Segments(result)[i] # <<>>

----------------------------------------------------------------------------
(* Claims about what Save stores of the field mapping                      *)

\* C29: Save writes the selections of the mapping widget into the field_map
\* of the profile selected at that moment only; every other profile of the
\* saved configuration is the one of the working copy.  A selection in the
\* widget changes no profile, and a switch to another profile changes no
\* profile and rebuilds the widget from the working copy, so that a selection
\* followed by a switch is not stored.
C29_SaveStoresMappingOfSelectedProfileOnly ==
    [][/\ (last'[1] = "save_config" /\ last'[2] = "saved")
            => /\ CONFIG'.profiles.order = _profiles.order
               /\ \A k \in Keys(_profiles) \ {CurrentKey} :
                      CONFIG'.profiles.at[k] = _profiles.at[k]
               /\ CONFIG'.profiles.at[CurrentKey] =
                      Put(_profiles.at[CurrentKey], "field_map",
                          get_mapping(_field_mapping_widget))
               /\ stored'.profiles = CONFIG'.profiles
       /\ last'[1] = "select_field" => _profiles' = _profiles
       /\ last'[1] = "_on_profile_changed"
            => /\ _profiles' = _profiles
               /\ _field_mapping_widget' =
                      rebuild_field_mapping(_profiles.at[CurrentKey'], nt_combo)]_vars

(* after a save, one profile holds field names of the note type and another *)
(* one still has the field_map it was loaded with                            *)
C29_Witness ==
    /\ last = <<"save_config", "saved">>
    /\ \E k, j \in Keys(CONFIG.profiles) \cap BuiltIn :
           /\ k # j
           /\ "field_map" \in DOMAIN CONFIG.profiles.at[k]
           /\ "field_map" \in DOMAIN CONFIG.profiles.at[j]
           /\ CONFIG.profiles.at[k].field_map # DEFAULT_PROFILES.at[k].field_map
           /\ CONFIG.profiles.at[j].field_map = DEFAULT_PROFILES.at[j].field_map

----------------------------------------------------------------------------
(* Claims about the working copy of the settings dialog                    *)

(* the steps that write the configuration: the load, and Save *)
WritesConfig ==
    \/ last'[1] \in {"load", "restart"}
    \/ last' = <<"save_config", "saved">>

\* C28: the settings dialog edits a working copy.  Every step that is not a
\* Save (nor a load of the configuration) leaves the configuration in memory
\* and the one on disk as they were, hence their profiles and their active
\* profile key; while the dialog is open its profiles are a dict of its own,
\* neither the one of CONFIG nor DEFAULT_PROFILES; and DEFAULT_PROFILES, which
\* reset-prompt and reset-all restore from, always is what the module defined.
C28_DialogEditsAWorkingCopy ==
    /\ [](/\ default_profiles = DEFAULT_PROFILES
          /\ dialog = "open" => _profiles_dict \notin {CONFIG_dict, "DEFAULT_PROFILES"})
    /\ [][~WritesConfig => /\ CONFIG' = CONFIG
                           /\ stored' = stored]_vars

(* the prompt of a built-in profile was edited in the dialog while the *)
(* profiles of CONFIG are the dict DEFAULT_PROFILES itself              *)
C28_Witness ==
    /\ dialog = "open"
    /\ CONFIG_dict = "DEFAULT_PROFILES"
    /\ last[1] = "_on_prompt_changed"
    /\ CurrentKey \in BuiltIn
    /\ _profiles.at[CurrentKey].prompt # CONFIG.profiles.at[CurrentKey].prompt
    /\ CONFIG.profiles = DEFAULT_PROFILES

----------------------------------------------------------------------------
(* Claims about the cleanup after the loop                                 *)

InLoop == ipc \in {"top", "media", "api", "notes"}

CleanupDone == import_complete /\ resets = 1

CleanupOnce ==
    /\ resets <= 1
    /\ (InLoop \/ ipc \in {"except", "done"})
           => /\ resets = 0
              /\ ~import_complete
              /\ result_msg = <<>>
    /\ ipc = "except" => ENABLED ExceptHandler
    /\ ipc = "done" => ENABLED Finally
    /\ ipc = "results" => CleanupDone /\ ENABLED Results
    /\ (result_msg # <<>> \/ ended = "complete") => CleanupDone

CleanupStep ==
    /\ (InLoop /\ ~InLoop') => ipc' \in {"done", "except"}
    /\ (ipc = "except" /\ ipc' # ipc) => ipc' = "done"
    /\ (ipc = "done" /\ ipc' # ipc)
           => /\ ipc' = "results"
              /\ import_complete'
              /\ resets' = resets + 1
    /\ resets' # resets => ipc = "done"
    /\ import_complete' # import_complete => ipc = "done"
    /\ result_msg' # result_msg => ipc = "results" /\ CleanupDone

\* C21: once the loop is entered, every way it ends (all files done, cancel,
\* authorization abort, an exception that escapes an iteration) leads to the
\* cleanup, which runs exactly once, marks the progress dialog complete and
\* resets the collection, and the summary is produced only after it.
C21_CleanupExactlyOnceBeforeSummary ==
    []CleanupOnce /\ [][CleanupStep]_vars

(* the summary of a run whose loop was left by an exception *)
C21_Witness ==
    /\ ended = "complete"
    /\ result_msg # <<>>
    /\ CleanupDone
    /\ api_calls # <<>>
    /\ parse_raises(api_calls[Len(api_calls)].reply)
    /\ index < Len(valid_files)

----------------------------------------------------------------------------
(* Claims about the fields of the notes                                    *)

(* the slots of the format that were resolved to the field *)
SlotsOf(field) == {slot \in SlotKeys(profile_fmt) : f_field[slot] = <<field>>}

\* C22: when two slots of a Card Record resolve to the same field, the field
\* of the created note holds the content of both slots: the content of no
\* slot is overwritten or lost.
C22_SharedFieldHoldsEverySlot ==
    \A k \in 1..Len(notes) :
        \A field \in DOMAIN notes[k].fields :
            \A slot \in SlotsOf(field) :
                Cardinality(SlotsOf(field)) >= 2 =>
                contains(notes[k].fields[field], Get(notes[k].card, slot, <<>>))

(* the field content ends with the image tag of the file *)
EndsWithImage(content, file) ==
    /\ content # <<>>
    /\ content[Len(content)] = img_tag(basename(file))[1]

\* C23: every note created by an import carries the image-reference tag of its
\* source file, at the end of the field the extra slot resolves to, for every
\* format and every note type that passes the field-count check.
C23_EveryNoteCarriesTheImage ==
    \A k \in 1..Len(notes) :
        /\ f_field.extra # <<>>
        /\ EndsWithImage(notes[k].fields[f_field.extra[1]], notes[k].file)

----------------------------------------------------------------------------
(* Claims about the failure policy of the loop                             *)

(* call k got a text in which the parser of the format found no card *)
EmptyParse(k) ==
    /\ get_gemini_response(api_calls[k].reply).success
    /\ ~parse_raises(api_calls[k].reply)
    /\ parse_response(get_gemini_response(api_calls[k].reply).text, profile_fmt) = <<>>

\* C24: when a successful AI response parses to zero Card Records the file is
\* logged as a warning, is not counted among the failed files, and the loop
\* goes on with the next file.
C24_EmptyParseIsNotAFailure ==
    \A k \in 1..Len(api_calls) :
        EmptyParse(k) =>
            /\ \E e \in 1..Len(error_log) :
                   error_log[e] = <<basename(api_calls[k].current),
                                    "No valid cards found in response">>
            /\ \A c \in 1..Len(counted) : counted[c] # <<api_calls[k].current, "failed">>
            /\ index >= Position(api_calls[k].current)

CreationError(file) == <<basename(file), "Card creation error: ">>

(* a step of the card loop: one record is taken, and the note is added or *)
(* the error is logged; the loop ends after the last record only          *)
CardLoopStep ==
    ipc = "notes" =>
        /\ ipc' \in {"notes", "top"}
        /\ card_i' # card_i =>
               /\ card_i' = card_i + 1
               /\ ipc' = "notes"
               /\ index' = index
               /\ \/ /\ Len(notes') = Len(notes) + 1
                     /\ cards_created' = cards_created + 1
                     /\ error_log' = error_log
                  \/ /\ notes' = notes
                     /\ cards_created' = cards_created
                     /\ error_log' = Append(error_log, CreationError(valid_files[index + 1]))
        /\ ipc' = "top" =>
               /\ card_i = Len(cards)
               /\ index' = index + 1
               /\ cards_created' = cards_created

(* the next file is taken while there is one and nobody cancelled *)
NextFileTaken ==
    (ipc = "top" /\ ~cancelled /\ index < Len(valid_files) /\ ipc' # ipc) => ipc' = "media"

\* C25: a failure to create one note never stops the batch: the error is
\* logged for that record, the remaining records of the file are still tried,
\* the following files are still processed, and cards_created counts one for
\* each note added and nothing for a failed one.
C25_NoteFailureNeverStopsTheBatch ==
    /\ [](cards_created = Len(notes))
    /\ [][CardLoopStep /\ NextFileTaken]_vars

(* the first record of the first file failed, the second one was added, and *)
(* a note of the second file was added after that                           *)
C25_Witness ==
    /\ Len(valid_files) = 2
    /\ Len(api_calls) = 2
    /\ error_log = <<CreationError(valid_files[1])>>
    /\ Len(notes) = 2
    /\ notes[1].file = valid_files[1]
    /\ api_calls[1].reply.kind = "text"
    /\ Len(parse_response(api_calls[1].reply.text, profile_fmt)) = 2
    /\ notes[1].card = parse_response(api_calls[1].reply.text, profile_fmt)[2]
    /\ notes[2].file = valid_files[2]
    /\ cards_created = 2

----------------------------------------------------------------------------
(* Claims about the order of a run                                         *)

(* Idle 0, ValidatingConfig 1, SelectingInput 2, ConfirmPending 3, and the *)
(* processing with its cleanup and summary 4                                *)
Phase(at) ==
    CASE at = "idle" -> 0
      [] at = "config" -> 1
      [] at \in {"deck", "files"} -> 2
      [] at = "confirm" -> 3
      [] OTHER -> 4

(* everything steps 1 to 7 ask for *)
PreflightPassed ==
    /\ Get(CONFIG, "api_key", NoApiKey).len # 0
    /\ validate_api_key(Get(CONFIG, "api_key", NoApiKey))
    /\ model_name # ""
    /\ models_get(Get(CONFIG, "note_type_id", 0)) # <<>>
    /\ Len(models_get(Get(CONFIG, "note_type_id", 0))[1].flds) >= 2
    /\ root_deck # <<>>
    /\ valid_files # <<>>
    /\ \A i \in 1..Len(valid_files) : is_valid_image(valid_files[i])
    /\ confirmed

NothingImported ==
    /\ media_added = <<>>
    /\ api_calls = <<>>
    /\ notes = <<>>
    /\ cards_created = 0

RunGuarded ==
    /\ (Phase(ipc) = 4 \/ ~NothingImported) => PreflightPassed
    /\ ended \notin {"", "complete"} => (ipc = "idle" /\ NothingImported)

RunOrderStep ==
    /\ Phase(ipc') \in {Phase(ipc), Phase(ipc) + 1} \/ ipc' = "idle"
    /\ (ipc = "idle" /\ ipc' # "idle") => (ended = "" /\ ipc' = "config")
    /\ (ipc # "idle" /\ ipc' = "idle") =>
           IF Phase(ipc) = 4 THEN ended' = "complete"
           ELSE ended' \notin {"", "complete"} /\ NothingImported'

\* C26: a run goes through Idle, ValidatingConfig, SelectingInput,
\* ConfirmPending and Processing in that order; no media is registered, no
\* request for cards is sent and no note is created unless the credential is
\* well-formed, a model was resolved, the note type has at least 2 fields, a
\* deck name and a valid image were given and the user confirmed; every
\* failure or refusal before that returns to idle with no note created.
C26_ProcessingOnlyAfterEveryCheck ==
    /\ []RunGuarded
    /\ [][RunOrderStep]_vars

C26_Witness ==
    /\ ipc = "notes"
    /\ confirmed
    /\ media_added # <<>>
    /\ notes # <<>>
    /\ api_calls[1].model = model_name

----------------------------------------------------------------------------
(* Claims about the counters of the summary                                *)

CountedAs(what) == {c \in 1..Len(counted) : counted[c][2] = what}

(* the files the loop has started *)
Started ==
    IF ipc = "top" \/ index + 1 > Len(valid_files) THEN index ELSE index + 1

CountersConsistent ==
    /\ \A c, d \in 1..Len(counted) : c # d => counted[c][1] # counted[d][1]
    /\ files_processed = Cardinality(CountedAs("processed"))
    /\ files_failed = Cardinality(CountedAs("failed"))
    /\ files_processed + files_failed <= Started
    /\ \A c \in CountedAs("processed") :
           \E k \in 1..Len(notes) : notes[k].file = counted[c][1]
    /\ files_processed <= cards_created
    /\ result_msg # <<>> =>
           /\ result_msg.files_processed = files_processed
           /\ result_msg.cards_created = cards_created
           /\ result_msg.files_failed = IF files_failed > 0 THEN <<files_failed>> ELSE <<>>

CountersNeverDecrease ==
    /\ files_processed' >= files_processed
    /\ files_failed' >= files_failed
    /\ cards_created' >= cards_created

\* C30: the counters of the summary are consistent at every point of a run:
\* a file is counted at most once, as processed or as failed; processed plus
\* failed never exceeds the files started; a processed file has a note, so
\* files_processed never exceeds cards_created; no counter decreases.
C30_CountersConsistent ==
    /\ []CountersConsistent
    /\ [][CountersNeverDecrease]_vars

C30_Witness ==
    /\ ended = "complete"
    /\ files_processed = 1
    /\ files_failed = 1
    /\ cards_created >= 1

====
